---- MODULE Spec2Model ----
(***************************************************************************)
(* Ledger model of the Superfan on-chain programs.                         *)
(*                                                                         *)
(* Spec models the label-subdao program                                    *)
(* (src/solana-adapter/programs/label-subdao/src/lib.rs): one Label, its   *)
(* USDC treasury, the artist proposals and credit lines derived from it,   *)
(* and the five instructions submit_artist_proposal,                       *)
(* execute_artist_funding, draw_credit, repay_credit, settle_with_dao.     *)
(*                                                                         *)
(* SpecPresale models the superfan-presale program                         *)
(* (src/solana-adapter/programs/superfan-presale/src/lib.rs): one          *)
(* Campaign, its USDC treasury, its token mint, and the four instructions  *)
(* initialize_campaign, buy_presale, withdraw_funds, close_campaign.       *)
(*                                                                         *)
(* SpecDao models the superfan-dao program                                 *)
(* (src/solana-adapter/programs/superfan-dao/src/lib.rs): the DAO, its     *)
(* USDC treasury, the label proposals, the labels they create with their   *)
(* treasuries and token mints, and the five instructions initialize_dao,   *)
(* propose_label, execute_label_funding, record_label_repayment,           *)
(* pay_protocol_fee.                                                       *)
(*                                                                         *)
(* The programs share no account, so each specification runs the           *)
(* instructions of one program and leaves the accounts of the others as    *)
(* they are.                                                               *)
(*                                                                         *)
(* An instruction is one atomic step.  Its accounts are validated first    *)
(* (the #[derive(Accounts)] constraints), then the handler body runs; the  *)
(* first failing check, CPI or checked arithmetic operation aborts the     *)
(* instruction and the runtime discards every account write it made, so a  *)
(* failed instruction changes nothing but the result the caller sees.      *)
(***************************************************************************)
EXTENDS Integers, FiniteSets, Sequences, TLC

----------------------------------------------------------------------------
(* Bounds of the model *)

\* Largest value of a u64 counter or token amount, scaled down.
U64_MAX == 3

\* USDC held by the label treasury in the initial state.
InitialFunding == 2

\* USDC held by the funded presale buyer in the initial state (all the USDC
\* of the presale accounts: balances of one mint sum to at most U64_MAX).
BuyerFunds == 3

\* Largest price_per_token_usdc a campaign is created with.
MaxPrice == 2

\* Largest total_supply cap a campaign is created with.
MaxSupply == 2

\* USDC held by the wallet that funds the DAO treasury, in the initial state
\* (all the USDC of the DAO accounts).
DaoFunding == 2

\* Largest value of a u64 amount of label tokens, scaled down less than
\* U64_MAX so that the 50% and 10% shares of a supply are distinct amounts.
TOKEN_U64_MAX == 1000

(* Program constants *)

\* require!(artist_name.len() <= 50, ...)
MAX_NAME_LEN == 50
\* require!(campaign_id.len() <= 50, ...)
MAX_ID_LEN == 50
\* require!(campaign_description.len() <= 500, ...)
MAX_DESCRIPTION_LEN == 500

----------------------------------------------------------------------------
(* Identities and inputs *)

\* Wallets that submit proposals and so become the artist of a credit line.
Artists == {"artist1"}

\* Wallets that sign instructions: the artists and one wallet that is the
\* artist of no credit line.
Signers == Artists \cup {"outsider"}

\* Campaign identifiers; the proposal and credit-line PDAs of a label are
\* derived from the campaign id, so there is one of each per id.
CampaignIds == {"c1", "c2"}

\* An identifier longer than MAX_ID_LEN, to reach the IdTooLong check.
LongCampaignId == "c_long"

\* campaign_id.len()
IdLen(campaign_id) == IF campaign_id = LongCampaignId THEN MAX_ID_LEN + 1 ELSE 2

\* USDC token accounts: the label treasury, the DAO treasury and one account
\* owned by each signing wallet (named by its owner).
TokenAccounts == {"label_treasury", "dao_treasury"} \cup Signers

\* Accounts passed as dao_treasury to settle_with_dao, which constrains
\* neither its address nor its owner: the DAO treasury and, as an account
\* other than it, the label treasury itself.
SettleDestinations == {"dao_treasury", "label_treasury"}

\* Instruction amounts tried: zero and every amount the treasury can hold.
Amounts == 0..InitialFunding

NameLens == {MAX_NAME_LEN, MAX_NAME_LEN + 1}
DescriptionLens == {MAX_DESCRIPTION_LEN, MAX_DESCRIPTION_LEN + 1}

Min(a, b) == IF a <= b THEN a ELSE b

\* Option::None, of an overflowing checked operation or of an unset option.
None == -1

----------------------------------------------------------------------------
(* State *)

VARIABLES
    label,          \* LabelExternal: is_active and the three counters
    token_amount,   \* TokenAccount.amount of every USDC account
    proposals,      \* ArtistProposal accounts by campaign id
    credit_lines,   \* CreditLine accounts by campaign id
    last,           \* the last instruction submitted and its result
    campaign,       \* presale: the Campaign account
    presale_usdc,   \* presale: TokenAccount.amount of every USDC account
    campaign_tokens,\* presale: amount of every buyer_token_account
    mint_supply,    \* presale: Mint.supply of campaign_token_mint
    dao,            \* dao: the SuperfanDAO account
    dao_proposals,  \* dao: LabelProposal accounts by label name
    labels,         \* dao: LabelSubDAO accounts by label name
    dao_usdc,       \* dao: TokenAccount.amount of every USDC account
    label_mints     \* dao: the label token mint of every label

ledger == <<label, token_amount, proposals, credit_lines>>
presale_ledger == <<campaign, presale_usdc, campaign_tokens, mint_supply>>
dao_ledger == <<dao, dao_proposals, labels, dao_usdc, label_mints>>
vars == <<label, token_amount, proposals, credit_lines, last,
          campaign, presale_usdc, campaign_tokens, mint_supply,
          dao, dao_proposals, labels, dao_usdc, label_mints>>

\* An ArtistProposal account that was never created.
NoProposal ==
    [initialized |-> FALSE, artist |-> "none", requested_amount |-> 0,
     status |-> "None", credit_line |-> FALSE]

\* A CreditLine account that was never created.
NoCreditLine ==
    [initialized |-> FALSE, artist |-> "none", credit_limit |-> 0,
     credit_used |-> 0, credit_repaid |-> 0, is_active |-> FALSE]

\* Wallets of the presale: the campaign creator and two buyers.
Wallets == {"owner", "buyer1", "buyer2"}

\* Presale USDC accounts: the campaign treasury and one account per wallet.
PresaleAccounts == {"campaign_treasury"} \cup Wallets

\* A Campaign account that was never created.
NoCampaign ==
    [initialized |-> FALSE, authority |-> "none", price_per_token_usdc |-> 0,
     total_supply |-> None, tokens_sold |-> 0, usdc_raised |-> 0,
     is_active |-> FALSE]

\* The presale accounts before any presale instruction: no campaign, no
\* campaign token, one buyer funded.
PresaleGenesis ==
    /\ campaign = NoCampaign
    /\ presale_usdc = [a \in PresaleAccounts |->
                          IF a = "buyer1" THEN BuyerFunds ELSE 0]
    /\ campaign_tokens = [w \in Wallets |-> 0]
    /\ mint_supply = 0

\* Names of the labels proposed to the DAO; the proposal and label PDAs are
\* derived from the name, so there is one of each per name.
LabelNames == {"l1", "l2"}

\* A name longer than MAX_NAME_LEN, to reach the NameTooLong check.
LongLabelName == "l_long"

\* label_name.len()
NameLen(label_name) == IF label_name = LongLabelName THEN MAX_NAME_LEN + 1 ELSE 2

\* The USDC treasury of the label of the given name.
TreasuryOf(label_name) == "label_treasury_" \o label_name

\* DAO USDC accounts: the DAO treasury, the treasury of every label, the
\* MetaDAO treasury and the account of the wallet that funds the DAO.
DaoAccounts ==
    {"dao_treasury", "metadao_treasury", "funder"}
        \cup {TreasuryOf(n) : n \in LabelNames}

\* A SuperfanDAO account that was never created.
NoDao ==
    [initialized |-> FALSE, authority |-> "none", metadao_fee_bps |-> 0,
     total_labels_funded |-> 0,
     total_deployed_capital |-> 0, total_repayments |-> 0]

\* A LabelProposal account that was never created.
NoLabelProposal ==
    [initialized |-> FALSE, proposer |-> "none", funding_amount |-> 0,
     curator_share_bps |-> 0, status |-> "None", label |-> FALSE]

\* A LabelSubDAO account that was never created.
NoLabel ==
    [initialized |-> FALSE, initial_funding |-> 0, curator_share_bps |-> 0,
     total_deployed |-> 0, total_repaid |-> 0, is_active |-> FALSE]

\* A label token mint that was never created.
NoMint ==
    [initialized |-> FALSE, mint_authority |-> FALSE, supply |-> 0,
     curator_tokens |-> 0, dao_tokens |-> 0]

\* The DAO accounts before any DAO instruction: no DAO, no proposal, no
\* label, the funding wallet funded.
DaoGenesis ==
    /\ dao = NoDao
    /\ dao_proposals = [n \in LabelNames \cup {LongLabelName} |-> NoLabelProposal]
    /\ labels = [n \in LabelNames |-> NoLabel]
    /\ dao_usdc = [a \in DaoAccounts |-> IF a = "funder" THEN DaoFunding ELSE 0]
    /\ label_mints = [n \in LabelNames |-> NoMint]

\* What the caller of an instruction observes.
Result(op, err, signer, campaign_id, amount) ==
    [op |-> op, err |-> err, signer |-> signer, campaign_id |-> campaign_id,
     amount |-> amount]

----------------------------------------------------------------------------
(* Checked arithmetic *)

\* Variant: wrapping addition in place of checked addition.
checked_add_wrapping(a, b) == (a + b) % (U64_MAX + 1)

checked_add(a, b) == IF a + b > U64_MAX THEN None ELSE a + b

checked_sub(a, b) == IF b > a THEN None ELSE a - b

----------------------------------------------------------------------------
(* The SPL token transfer the handlers invoke by CPI *)

\* The error of transferring amount out of account from into account to.
token_transfer_err(bal, from, to, amount) ==
    IF bal[from] < amount THEN "TokenInsufficientFunds"
    ELSE IF from /= to /\ bal[to] + amount > U64_MAX THEN "TokenOverflow"
    ELSE "Ok"

\* Variant: a transfer from an account to itself credits it.
token_transfer_self_credit(bal, from, to, amount) ==
    IF from = to THEN [bal EXCEPT ![to] = @ + amount]
    ELSE [bal EXCEPT ![from] = @ - amount, ![to] = @ + amount]

\* The balances after a successful transfer (a self-transfer moves nothing).
token_transfer(bal, from, to, amount) ==
    IF from = to THEN bal
    ELSE [bal EXCEPT ![from] = @ - amount, ![to] = @ + amount]

----------------------------------------------------------------------------
(* Initial state: the label exists with zeroed counters and a funded       *)
(* treasury; no proposal and no credit line has been created.  No          *)
(* instruction of the program writes label.is_active, so both values are   *)
(* considered.                                                             *)

Init ==
    /\ label \in {[is_active |-> b, total_deployed |-> 0, total_repaid |-> 0,
                    committed_amount |-> 0] : b \in BOOLEAN}
    /\ token_amount = [a \in TokenAccounts |->
                          IF a = "label_treasury" THEN InitialFunding ELSE 0]
    /\ proposals = [c \in CampaignIds \cup {LongCampaignId} |-> NoProposal]
    /\ credit_lines = [c \in CampaignIds \cup {LongCampaignId} |-> NoCreditLine]
    /\ last = Result("init", "Ok", "none", "none", 0)
    /\ PresaleGenesis
    /\ DaoGenesis

----------------------------------------------------------------------------
(* submit_artist_proposal *)

\* Variant: the requested amount is not checked.
submit_artist_proposal_err_no_amount_check(artist, campaign_id, requested_amount, name_len, description_len) ==
    IF proposals[campaign_id].initialized THEN "AccountAlreadyInUse"
    ELSE IF ~(name_len <= MAX_NAME_LEN) THEN "NameTooLong"
    ELSE IF ~(IdLen(campaign_id) <= MAX_ID_LEN) THEN "IdTooLong"
    ELSE IF ~(description_len <= MAX_DESCRIPTION_LEN) THEN "DescriptionTooLong"
    ELSE IF ~label.is_active THEN "LabelInactive"
    ELSE LET available_funds ==
                 checked_sub(token_amount["label_treasury"], label.committed_amount)
         IN  IF available_funds = None THEN "MathOverflow"
             ELSE IF ~(available_funds >= requested_amount)
                  THEN "InsufficientLabelFunds"
             ELSE "Ok"

\* The first failure of the instruction, or "Ok".
submit_artist_proposal_err(artist, campaign_id, requested_amount, name_len, description_len) ==
    \* SubmitProposal: #[account(init, ...)] proposal
    IF proposals[campaign_id].initialized THEN "AccountAlreadyInUse"
    ELSE IF ~(name_len <= MAX_NAME_LEN) THEN "NameTooLong"
    ELSE IF ~(IdLen(campaign_id) <= MAX_ID_LEN) THEN "IdTooLong"
    ELSE IF ~(requested_amount > 0) THEN "InvalidAmount"
    ELSE IF ~(description_len <= MAX_DESCRIPTION_LEN) THEN "DescriptionTooLong"
    ELSE IF ~label.is_active THEN "LabelInactive"
    ELSE LET available_funds ==
                 checked_sub(token_amount["label_treasury"], label.committed_amount)
         IN  IF available_funds = None THEN "MathOverflow"
             ELSE IF ~(available_funds >= requested_amount)
                  THEN "InsufficientLabelFunds"
             ELSE "Ok"

submit_artist_proposal(artist, campaign_id, requested_amount, name_len, description_len) ==
    LET err == submit_artist_proposal_err(artist, campaign_id, requested_amount,
                                          name_len, description_len)
    IN  /\ last' = Result("submit_artist_proposal", err, artist, campaign_id,
                          requested_amount)
        /\ IF err = "Ok"
           THEN /\ proposals' = [proposals EXCEPT ![campaign_id] =
                      [initialized |-> TRUE, artist |-> artist,
                       requested_amount |-> requested_amount,
                       status |-> "Pending", credit_line |-> FALSE]]
                /\ UNCHANGED <<label, token_amount, credit_lines>>
           ELSE UNCHANGED ledger

----------------------------------------------------------------------------
(* execute_artist_funding *)

execute_artist_funding_err(payer, campaign_id) ==
    \* ExecuteFunding: proposal must exist; #[account(init, ...)] credit_line
    IF ~proposals[campaign_id].initialized THEN "AccountNotInitialized"
    ELSE IF credit_lines[campaign_id].initialized THEN "AccountAlreadyInUse"
    ELSE IF ~(proposals[campaign_id].status = "Pending") THEN "ProposalNotPending"
    ELSE IF checked_add(label.total_deployed,
                        proposals[campaign_id].requested_amount) = None
         THEN "MathOverflow"
    ELSE IF checked_add(label.committed_amount,
                        proposals[campaign_id].requested_amount) = None
         THEN "MathOverflow"
    ELSE "Ok"

\* Variant: the proposal is not linked to the credit line it spawned.
execute_artist_funding_no_link(payer, campaign_id) ==
    LET err == execute_artist_funding_err(payer, campaign_id)
        proposal == proposals[campaign_id]
    IN  /\ last' = Result("execute_artist_funding", err, payer, campaign_id, 0)
        /\ IF err = "Ok"
           THEN /\ credit_lines' = [credit_lines EXCEPT ![campaign_id] =
                      [initialized |-> TRUE, artist |-> proposal.artist,
                       credit_limit |-> proposal.requested_amount,
                       credit_used |-> 0, credit_repaid |-> 0,
                       is_active |-> TRUE]]
                /\ proposals' = [proposals EXCEPT
                      ![campaign_id].status = "Approved"]
                /\ label' = [label EXCEPT
                      !.total_deployed =
                          checked_add(@, proposal.requested_amount),
                      !.committed_amount =
                          checked_add(@, proposal.requested_amount)]
                /\ UNCHANGED token_amount
           ELSE UNCHANGED ledger

\* Variant: the new credit line starts with its whole limit already used.
execute_artist_funding_limit_used(payer, campaign_id) ==
    LET err == execute_artist_funding_err(payer, campaign_id)
        proposal == proposals[campaign_id]
    IN  /\ last' = Result("execute_artist_funding", err, payer, campaign_id, 0)
        /\ IF err = "Ok"
           THEN /\ credit_lines' = [credit_lines EXCEPT ![campaign_id] =
                      [initialized |-> TRUE, artist |-> proposal.artist,
                       credit_limit |-> proposal.requested_amount,
                       credit_used |-> proposal.requested_amount,
                       credit_repaid |-> 0, is_active |-> TRUE]]
                /\ proposals' = [proposals EXCEPT
                      ![campaign_id].status = "Approved",
                      ![campaign_id].credit_line = TRUE]
                /\ label' = [label EXCEPT
                      !.total_deployed =
                          checked_add(@, proposal.requested_amount),
                      !.committed_amount =
                          checked_add(@, proposal.requested_amount)]
                /\ UNCHANGED token_amount
           ELSE UNCHANGED ledger

\* Variant: the funds of the new credit line are not committed.
execute_artist_funding_no_commit(payer, campaign_id) ==
    LET err == execute_artist_funding_err(payer, campaign_id)
        proposal == proposals[campaign_id]
    IN  /\ last' = Result("execute_artist_funding", err, payer, campaign_id, 0)
        /\ IF err = "Ok"
           THEN /\ credit_lines' = [credit_lines EXCEPT ![campaign_id] =
                      [initialized |-> TRUE, artist |-> proposal.artist,
                       credit_limit |-> proposal.requested_amount,
                       credit_used |-> 0, credit_repaid |-> 0,
                       is_active |-> TRUE]]
                /\ proposals' = [proposals EXCEPT
                      ![campaign_id].status = "Approved",
                      ![campaign_id].credit_line = TRUE]
                /\ label' = [label EXCEPT
                      !.total_deployed =
                          checked_add(@, proposal.requested_amount)]
                /\ UNCHANGED token_amount
           ELSE UNCHANGED ledger

execute_artist_funding(payer, campaign_id) ==
    LET err == execute_artist_funding_err(payer, campaign_id)
        proposal == proposals[campaign_id]
    IN  /\ last' = Result("execute_artist_funding", err, payer, campaign_id, 0)
        /\ IF err = "Ok"
           THEN /\ credit_lines' = [credit_lines EXCEPT ![campaign_id] =
                      [initialized |-> TRUE, artist |-> proposal.artist,
                       credit_limit |-> proposal.requested_amount,
                       credit_used |-> 0, credit_repaid |-> 0,
                       is_active |-> TRUE]]
                /\ proposals' = [proposals EXCEPT
                      ![campaign_id].status = "Approved",
                      ![campaign_id].credit_line = TRUE]
                /\ label' = [label EXCEPT
                      !.total_deployed =
                          checked_add(@, proposal.requested_amount),
                      !.committed_amount =
                          checked_add(@, proposal.requested_amount)]
                /\ UNCHANGED token_amount
           ELSE UNCHANGED ledger

----------------------------------------------------------------------------
(* draw_credit *)

\* Variant: the available-credit check is missing.
draw_credit_check_no_limit(campaign_id, amount) ==
    LET credit_line == credit_lines[campaign_id]
    IN  IF ~(amount > 0) THEN "InvalidAmount"
        ELSE IF ~credit_line.is_active THEN "CreditLineInactive"
        ELSE "Ok"

\* Variant: the is_active check is missing.
draw_credit_check_no_active(campaign_id, amount) ==
    LET credit_line == credit_lines[campaign_id]
        available_credit ==
            checked_sub(credit_line.credit_limit, credit_line.credit_used)
    IN  IF ~(amount > 0) THEN "InvalidAmount"
        ELSE IF available_credit = None THEN "MathOverflow"
        ELSE IF ~(amount <= available_credit) THEN "InsufficientCredit"
        ELSE "Ok"

\* Variant: is_active is checked before the amount.
draw_credit_check_active_first(campaign_id, amount) ==
    LET credit_line == credit_lines[campaign_id]
        available_credit ==
            checked_sub(credit_line.credit_limit, credit_line.credit_used)
    IN  IF ~credit_line.is_active THEN "CreditLineInactive"
        ELSE IF ~(amount > 0) THEN "InvalidAmount"
        ELSE IF available_credit = None THEN "MathOverflow"
        ELSE IF ~(amount <= available_credit) THEN "InsufficientCredit"
        ELSE "Ok"

\* The handler's checks before the transfer, in the order of the code.
draw_credit_check(campaign_id, amount) ==
    LET credit_line == credit_lines[campaign_id]
        available_credit ==
            checked_sub(credit_line.credit_limit, credit_line.credit_used)
    IN  IF ~(amount > 0) THEN "InvalidAmount"
        ELSE IF ~credit_line.is_active THEN "CreditLineInactive"
        ELSE IF available_credit = None THEN "MathOverflow"
        ELSE IF ~(amount <= available_credit) THEN "InsufficientCredit"
        ELSE "Ok"

\* Variant: the credit line is not tied to the signing artist (no has_one).
draw_credit_err_no_has_one(artist, campaign_id, amount) ==
    IF ~credit_lines[campaign_id].initialized THEN "AccountNotInitialized"
    ELSE IF draw_credit_check(campaign_id, amount) /= "Ok"
         THEN draw_credit_check(campaign_id, amount)
    ELSE IF token_transfer_err(token_amount, "label_treasury", artist, amount) /= "Ok"
         THEN token_transfer_err(token_amount, "label_treasury", artist, amount)
    ELSE IF checked_add(credit_lines[campaign_id].credit_used, amount) = None
         THEN "MathOverflow"
    ELSE IF checked_sub(label.committed_amount, amount) = None
         THEN "MathOverflow"
    ELSE "Ok"

draw_credit_err(artist, campaign_id, amount) ==
    \* DrawCredit: credit_line must exist, has_one = artist
    IF ~credit_lines[campaign_id].initialized THEN "AccountNotInitialized"
    ELSE IF credit_lines[campaign_id].artist /= artist THEN "ConstraintHasOne"
    ELSE IF draw_credit_check(campaign_id, amount) /= "Ok"
         THEN draw_credit_check(campaign_id, amount)
    ELSE IF token_transfer_err(token_amount, "label_treasury", artist, amount) /= "Ok"
         THEN token_transfer_err(token_amount, "label_treasury", artist, amount)
    ELSE IF checked_add(credit_lines[campaign_id].credit_used, amount) = None
         THEN "MathOverflow"
    ELSE IF checked_sub(label.committed_amount, amount) = None
         THEN "MathOverflow"
    ELSE "Ok"

\* Variant: committed_amount is not decremented.
draw_credit_no_release(artist, campaign_id, amount) ==
    LET err == draw_credit_err(artist, campaign_id, amount)
    IN  /\ last' = Result("draw_credit", err, artist, campaign_id, amount)
        /\ IF err = "Ok"
           THEN /\ token_amount' =
                      token_transfer(token_amount, "label_treasury", artist, amount)
                /\ credit_lines' = [credit_lines EXCEPT
                      ![campaign_id].credit_used = checked_add(@, amount)]
                /\ UNCHANGED <<label, proposals>>
           ELSE UNCHANGED ledger

\* Variant: the result of the transfer is dropped instead of propagated, so
\* a failed transfer moves nothing and the counters are updated all the same.
draw_credit_ignoring_transfer_error(artist, campaign_id, amount) ==
    LET transfer_err ==
            token_transfer_err(token_amount, "label_treasury", artist, amount)
        err == IF draw_credit_err(artist, campaign_id, amount) = "TokenInsufficientFunds"
               THEN "Ok" ELSE draw_credit_err(artist, campaign_id, amount)
    IN  /\ last' = Result("draw_credit", err, artist, campaign_id, amount)
        /\ IF err = "Ok"
           THEN /\ token_amount' =
                      IF transfer_err = "Ok"
                      THEN token_transfer(token_amount, "label_treasury", artist, amount)
                      ELSE token_amount
                /\ credit_lines' = [credit_lines EXCEPT
                      ![campaign_id].credit_used = checked_add(@, amount)]
                /\ label' = [label EXCEPT
                      !.committed_amount = checked_sub(@, amount)]
                /\ UNCHANGED proposals
           ELSE UNCHANGED ledger

draw_credit(artist, campaign_id, amount) ==
    LET err == draw_credit_err(artist, campaign_id, amount)
    IN  /\ last' = Result("draw_credit", err, artist, campaign_id, amount)
        /\ IF err = "Ok"
           THEN /\ token_amount' =
                      token_transfer(token_amount, "label_treasury", artist, amount)
                /\ credit_lines' = [credit_lines EXCEPT
                      ![campaign_id].credit_used = checked_add(@, amount)]
                /\ label' = [label EXCEPT
                      !.committed_amount = checked_sub(@, amount)]
                /\ UNCHANGED proposals
           ELSE UNCHANGED ledger

----------------------------------------------------------------------------
(* repay_credit *)

\* Variant: the repayment is not capped at the remaining balance.
actual_repayment_uncapped(amount, remaining_balance) == amount

\* amount.min(remaining_balance)
actual_repayment(amount, remaining_balance) == Min(amount, remaining_balance)

\* The handler's checks before the transfer, in the order of the code.
repay_credit_check(campaign_id, amount) ==
    LET credit_line == credit_lines[campaign_id]
    IN  IF ~(amount > 0) THEN "InvalidAmount"
        ELSE IF ~credit_line.is_active THEN "CreditLineInactive"
        ELSE IF checked_sub(credit_line.credit_used, credit_line.credit_repaid) = None
             THEN "MathOverflow"
        ELSE "Ok"

repay_credit_err(artist, campaign_id, amount) ==
    \* RepayCredit: credit_line must exist, has_one = artist
    IF ~credit_lines[campaign_id].initialized THEN "AccountNotInitialized"
    ELSE IF credit_lines[campaign_id].artist /= artist THEN "ConstraintHasOne"
    ELSE IF repay_credit_check(campaign_id, amount) /= "Ok"
         THEN repay_credit_check(campaign_id, amount)
    ELSE LET credit_line == credit_lines[campaign_id]
             remaining_balance ==
                 checked_sub(credit_line.credit_used, credit_line.credit_repaid)
             actual == actual_repayment(amount, remaining_balance)
         IN  IF token_transfer_err(token_amount, artist, "label_treasury", actual) /= "Ok"
             THEN token_transfer_err(token_amount, artist, "label_treasury", actual)
             ELSE IF checked_add(credit_line.credit_repaid, actual) = None
                  THEN "MathOverflow"
             ELSE IF checked_add(label.total_repaid, actual) = None
                  THEN "MathOverflow"
             ELSE "Ok"

\* Variant: > in place of >=.
fully_repaid_strict(credit_repaid, credit_used) == credit_repaid > credit_used

\* if credit_line.credit_repaid >= credit_line.credit_used { is_active = false }
fully_repaid(credit_repaid, credit_used) == credit_repaid >= credit_used

\* Variant: label.total_repaid is not updated.
repay_credit_no_label_stats(artist, campaign_id, amount) ==
    LET err == repay_credit_err(artist, campaign_id, amount)
        credit_line == credit_lines[campaign_id]
        remaining_balance ==
            checked_sub(credit_line.credit_used, credit_line.credit_repaid)
        actual == actual_repayment(amount, remaining_balance)
        new_repaid == checked_add(credit_line.credit_repaid, actual)
    IN  /\ last' = Result("repay_credit", err, artist, campaign_id, amount)
        /\ IF err = "Ok"
           THEN /\ token_amount' =
                      token_transfer(token_amount, artist, "label_treasury", actual)
                /\ credit_lines' = [credit_lines EXCEPT
                      ![campaign_id].credit_repaid = new_repaid,
                      ![campaign_id].is_active =
                          IF fully_repaid(new_repaid, credit_line.credit_used)
                          THEN FALSE ELSE @]
                /\ UNCHANGED <<label, proposals>>
           ELSE UNCHANGED ledger

repay_credit(artist, campaign_id, amount) ==
    LET err == repay_credit_err(artist, campaign_id, amount)
        credit_line == credit_lines[campaign_id]
        remaining_balance ==
            checked_sub(credit_line.credit_used, credit_line.credit_repaid)
        actual == actual_repayment(amount, remaining_balance)
        new_repaid == checked_add(credit_line.credit_repaid, actual)
    IN  /\ last' = Result("repay_credit", err, artist, campaign_id, amount)
        /\ IF err = "Ok"
           THEN /\ token_amount' =
                      token_transfer(token_amount, artist, "label_treasury", actual)
                /\ credit_lines' = [credit_lines EXCEPT
                      ![campaign_id].credit_repaid = new_repaid,
                      ![campaign_id].is_active =
                          IF fully_repaid(new_repaid, credit_line.credit_used)
                          THEN FALSE ELSE @]
                /\ label' = [label EXCEPT
                      !.total_repaid = checked_add(@, actual)]
                /\ UNCHANGED proposals
           ELSE UNCHANGED ledger

----------------------------------------------------------------------------
(* settle_with_dao *)

\* SettleWithDAO puts no constraint on the caller nor on the account passed
\* as dao_treasury.
settle_with_dao_err(caller, amount, dao_treasury) ==
    IF ~(amount > 0) THEN "InvalidAmount"
    ELSE IF ~label.is_active THEN "LabelInactive"
    ELSE IF ~(token_amount["label_treasury"] >= amount) THEN "InsufficientLabelFunds"
    ELSE token_transfer_err(token_amount, "label_treasury", dao_treasury, amount)

settle_with_dao(caller, amount, dao_treasury) ==
    LET err == settle_with_dao_err(caller, amount, dao_treasury)
    IN  /\ last' = Result("settle_with_dao", err, caller, "none", amount)
        /\ IF err = "Ok"
           THEN /\ token_amount' =
                      token_transfer(token_amount, "label_treasury", dao_treasury, amount)
                /\ UNCHANGED <<label, proposals, credit_lines>>
           ELSE UNCHANGED ledger

----------------------------------------------------------------------------
(* The label program: any signer submits any instruction with any input *)

SubmitArtistProposal ==
    \E artist \in Artists, campaign_id \in CampaignIds \cup {LongCampaignId},
       requested_amount \in Amounts, name_len \in NameLens,
       description_len \in DescriptionLens :
        /\ submit_artist_proposal(artist, campaign_id, requested_amount,
                                  name_len, description_len)
        /\ UNCHANGED <<presale_ledger, dao_ledger>>

ExecuteArtistFunding ==
    \E payer \in Signers, campaign_id \in CampaignIds :
        /\ execute_artist_funding(payer, campaign_id)
        /\ UNCHANGED <<presale_ledger, dao_ledger>>

DrawCredit ==
    \E artist \in Signers, campaign_id \in CampaignIds, amount \in Amounts :
        /\ draw_credit(artist, campaign_id, amount)
        /\ UNCHANGED <<presale_ledger, dao_ledger>>

RepayCredit ==
    \E artist \in Signers, campaign_id \in CampaignIds, amount \in Amounts :
        /\ repay_credit(artist, campaign_id, amount)
        /\ UNCHANGED <<presale_ledger, dao_ledger>>

SettleWithDAO ==
    \E caller \in Signers, amount \in Amounts, dao_treasury \in SettleDestinations :
        /\ settle_with_dao(caller, amount, dao_treasury)
        /\ UNCHANGED <<presale_ledger, dao_ledger>>

Next ==
    \/ SubmitArtistProposal
    \/ ExecuteArtistFunding
    \/ DrawCredit
    \/ RepayCredit
    \/ SettleWithDAO

Spec == Init /\ [][Next]_vars

----------------------------------------------------------------------------
(* Properties of the label ledger *)

RECURSIVE SumRequested(_)
\* The sum of requested_amount over a set of proposals.
SumRequested(S) ==
    IF S = {} THEN 0
    ELSE LET c == CHOOSE x \in S : TRUE
         IN  proposals[c].requested_amount + SumRequested(S \ {c})

\* Proposals that hold a claim on treasury funds not yet paid out: pending
\* ones, and approved ones from whose credit line nothing was drawn yet.
UndeployedProposals ==
    {c \in CampaignIds :
        /\ proposals[c].initialized
        /\ \/ proposals[c].status = "Pending"
           \/ /\ proposals[c].status = "Approved"
              /\ credit_lines[c].credit_used = 0}

\* The last instruction was op and reached the handler's result err.
Did(op, err) == last.op = op /\ last.err = err

\* C1: in every reachable state label.committed_amount is at most the label
\* treasury's token balance.
C1_CommittedWithinTreasury ==
    label.committed_amount <= token_amount["label_treasury"]

\* C2: the requested amounts of all proposals that are Pending, or Approved
\* and not yet drawn, sum to at most the treasury's raw balance.
C2_NoDoubleCommit ==
    SumRequested(UndeployedProposals) <= token_amount["label_treasury"]

\* Errors submit_artist_proposal raises before it looks at the funds.
SubmitEarlierErrors ==
    {"AccountAlreadyInUse", "NameTooLong", "IdTooLong", "InvalidAmount",
     "DescriptionTooLong", "LabelInactive"}

\* C3: a submit_artist_proposal that passes input validation on an active
\* label fails with the insufficient-funds error and changes nothing when
\* requested_amount exceeds treasury balance - committed_amount, and
\* otherwise succeeds, creating the proposal as Pending and changing no
\* balance, counter or credit line.
C3_SubmitAvailableFunds ==
    [][(last'.op = "submit_artist_proposal" /\ last'.err \notin SubmitEarlierErrors)
       => IF last'.amount > token_amount["label_treasury"] - label.committed_amount
          THEN last'.err = "InsufficientLabelFunds" /\ UNCHANGED ledger
          ELSE /\ last'.err = "Ok"
               /\ proposals' = [proposals EXCEPT ![last'.campaign_id] =
                     [initialized |-> TRUE, artist |-> last'.signer,
                      requested_amount |-> last'.amount,
                      status |-> "Pending", credit_line |-> FALSE]]
               /\ UNCHANGED <<label, token_amount, credit_lines>>]_vars

----------------------------------------------------------------------------
(* Properties of credit lines *)

\* credit_used - credit_repaid of a credit line (0 before it is created).
Outstanding(c) == credit_lines[c].credit_used - credit_lines[c].credit_repaid

\* The step is the instruction op on credit line c.
StepOn(op, c) == last'.op = op /\ last'.campaign_id = c

\* C4: the outstanding balance credit_used - credit_repaid of every credit
\* line is never negative; a successful draw_credit raises it by exactly
\* amount, a successful repay_credit lowers it by exactly
\* min(amount, remaining), and every other step leaves it unchanged.
C4_OutstandingConservation ==
    /\ [](\A c \in CampaignIds :
            credit_lines[c].credit_repaid <= credit_lines[c].credit_used)
    /\ [][\A c \in CampaignIds :
            LET before == Outstanding(c)
                after == credit_lines'[c].credit_used - credit_lines'[c].credit_repaid
                drew == StepOn("draw_credit", c) /\ last'.err = "Ok"
                repaid == StepOn("repay_credit", c) /\ last'.err = "Ok"
            IN  /\ drew => after = before + last'.amount
                /\ repaid => after = before - Min(last'.amount, before)
                /\ (~drew /\ ~repaid) => after = before]_vars

\* A repayment larger than the remaining balance was accepted and capped.
C4_Witness ==
    /\ Did("repay_credit", "Ok")
    /\ credit_lines[last.campaign_id].credit_repaid > 0
    /\ last.amount > credit_lines[last.campaign_id].credit_repaid

\* C5: in every reachable state of every credit line,
\* credit_used <= credit_limit.
C5_UsedWithinLimit ==
    \A c \in CampaignIds :
        credit_lines[c].credit_used <= credit_lines[c].credit_limit

\* A draw has used a credit line up to its limit.
C5_Witness ==
    /\ Did("draw_credit", "Ok")
    /\ credit_lines[last.campaign_id].credit_used =
           credit_lines[last.campaign_id].credit_limit

\* C6 as claimed: a credit line is inactive exactly when
\* credit_repaid = credit_used.
C6_InactiveIffRepaid ==
    \A c \in CampaignIds :
        credit_lines[c].initialized =>
            (~credit_lines[c].is_active <=>
                credit_lines[c].credit_repaid = credit_lines[c].credit_used)

\* C6 amended: a credit line with credit_repaid < credit_used is never
\* inactive, and one with credit_repaid = credit_used is never active unless
\* nothing was drawn from it (credit_used = 0).
C6_InactiveOnlyWhenRepaid ==
    \A c \in CampaignIds :
        credit_lines[c].initialized =>
            /\ credit_lines[c].credit_repaid < credit_lines[c].credit_used
                   => credit_lines[c].is_active
            /\ (credit_lines[c].credit_repaid = credit_lines[c].credit_used
                    /\ credit_lines[c].credit_used > 0)
                   => ~credit_lines[c].is_active

\* A credit line was drawn, repaid in full and closed by the repayment.
C6_Witness ==
    /\ Did("repay_credit", "Ok")
    /\ credit_lines[last.campaign_id].credit_used > 0
    /\ credit_lines[last.campaign_id].credit_repaid =
           credit_lines[last.campaign_id].credit_used
    /\ ~credit_lines[last.campaign_id].is_active

\* The step is a draw_credit or repay_credit on line c by the line's artist.
ArtistCallOn(c) ==
    /\ StepOn("draw_credit", c) \/ StepOn("repay_credit", c)
    /\ last'.signer = credit_lines[c].artist

\* C7 as claimed: an inactive credit line stays inactive, and every
\* draw_credit and repay_credit its artist makes on it fails with the
\* inactive error and changes nothing.
C7_InactiveCallsFailInactive ==
    [][\A c \in CampaignIds :
          (credit_lines[c].initialized /\ ~credit_lines[c].is_active) =>
              /\ ~credit_lines'[c].is_active
              /\ ArtistCallOn(c) =>
                     (last'.err = "CreditLineInactive" /\ UNCHANGED ledger)]_vars

\* C7 amended: an inactive credit line stays inactive, and every draw_credit
\* and repay_credit on it fails and changes nothing; a call its artist makes
\* fails with the inactive error when amount > 0 and with InvalidAmount when
\* amount = 0.
C7_InactiveStaysInactive ==
    [][\A c \in CampaignIds :
          (credit_lines[c].initialized /\ ~credit_lines[c].is_active) =>
              /\ ~credit_lines'[c].is_active
              /\ (StepOn("draw_credit", c) \/ StepOn("repay_credit", c)) =>
                     (last'.err /= "Ok" /\ UNCHANGED ledger)
              /\ ArtistCallOn(c) =>
                     last'.err = IF last'.amount = 0 THEN "InvalidAmount"
                                 ELSE "CreditLineInactive"]_vars

\* A draw on a closed credit line that still had undrawn credit was refused.
C7_Witness ==
    /\ Did("draw_credit", "CreditLineInactive")
    /\ ~credit_lines[last.campaign_id].is_active
    /\ last.amount <= credit_lines[last.campaign_id].credit_limit
                          - credit_lines[last.campaign_id].credit_used

\* C8: a draw_credit whose accounts are valid fails with InvalidAmount if
\* amount = 0, otherwise with the inactive error if the line is not active,
\* otherwise with InsufficientCredit if amount > credit_limit - credit_used;
\* each of these failures changes nothing.
C8_DrawErrorOrder ==
    [][\A c \in CampaignIds :
          (StepOn("draw_credit", c) /\ credit_lines[c].initialized
              /\ last'.signer = credit_lines[c].artist) =>
              /\ last'.err =
                     IF last'.amount = 0 THEN "InvalidAmount"
                     ELSE IF ~credit_lines[c].is_active THEN "CreditLineInactive"
                     ELSE IF last'.amount > credit_lines[c].credit_limit
                                               - credit_lines[c].credit_used
                          THEN "InsufficientCredit"
                     ELSE last'.err
              /\ last'.err \in {"InvalidAmount", "CreditLineInactive",
                                 "InsufficientCredit"} => UNCHANGED ledger]_vars

\* A draw beyond the available credit of an active line was refused.
C8_Witness ==
    /\ Did("draw_credit", "InsufficientCredit")
    /\ credit_lines[last.campaign_id].is_active
    /\ last.amount > credit_lines[last.campaign_id].credit_limit
                         - credit_lines[last.campaign_id].credit_used

\* C9: a successful draw_credit moves exactly amount from the label treasury
\* to the artist's account, raises credit_used by amount, lowers
\* committed_amount by amount and changes nothing else.
C9_DrawEffect ==
    [][\A c \in CampaignIds :
          (StepOn("draw_credit", c) /\ last'.err = "Ok") =>
              /\ token_amount' = [token_amount EXCEPT
                     !["label_treasury"] = @ - last'.amount,
                     ![credit_lines[c].artist] = @ + last'.amount]
              /\ credit_lines' = [credit_lines EXCEPT
                     ![c].credit_used = @ + last'.amount]
              /\ label' = [label EXCEPT !.committed_amount = @ - last'.amount]
              /\ proposals' = proposals]_vars

\* A draw succeeded and the artist holds the drawn funds.
C9_Witness ==
    /\ Did("draw_credit", "Ok")
    /\ token_amount[last.signer] >= last.amount
    /\ last.amount > 0

\* C10: a draw_credit that passes the handler's checks but whose token
\* transfer fails because the label treasury holds less than amount fails
\* as a whole and changes no counter and no balance.
C10_DrawAtomicOnTransferFailure ==
    [][\A c \in CampaignIds :
          (/\ StepOn("draw_credit", c)
           /\ credit_lines[c].initialized
           /\ last'.signer = credit_lines[c].artist
           /\ last'.amount > 0
           /\ credit_lines[c].is_active
           /\ last'.amount <= credit_lines[c].credit_limit - credit_lines[c].credit_used
           /\ token_amount["label_treasury"] < last'.amount) =>
              (last'.err /= "Ok" /\ UNCHANGED ledger)]_vars

\* A draw within the available credit failed in the token transfer.
C10_Witness ==
    /\ Did("draw_credit", "TokenInsufficientFunds")
    /\ credit_lines[last.campaign_id].is_active
    /\ last.amount <= credit_lines[last.campaign_id].credit_limit
                          - credit_lines[last.campaign_id].credit_used
    /\ token_amount["label_treasury"] < last.amount

\* C11: a successful repay_credit(amount) never rejects an overpayment: with
\* remaining = credit_used - credit_repaid and actual = min(amount,
\* remaining) it moves exactly actual from the artist's account to the label
\* treasury, raises credit_repaid and label.total_repaid by actual and leaves
\* credit_used, credit_limit and committed_amount unchanged.
C11_RepayEffect ==
    [][\A c \in CampaignIds :
          (StepOn("repay_credit", c) /\ last'.err = "Ok") =>
              LET remaining == credit_lines[c].credit_used
                                   - credit_lines[c].credit_repaid
                  actual == IF last'.amount <= remaining THEN last'.amount
                            ELSE remaining
              IN  /\ credit_lines[c].is_active
                  /\ token_amount' = [token_amount EXCEPT
                         ![credit_lines[c].artist] = @ - actual,
                         !["label_treasury"] = @ + actual]
                  /\ credit_lines'[c].credit_repaid =
                         credit_lines[c].credit_repaid + actual
                  /\ label'.total_repaid = label.total_repaid + actual
                  /\ credit_lines'[c].credit_used = credit_lines[c].credit_used
                  /\ credit_lines'[c].credit_limit = credit_lines[c].credit_limit
                  /\ label'.committed_amount = label.committed_amount]_vars

\* A single repayment larger than everything drawn from the line succeeded
\* and the label was credited with what was drawn, not with amount.
C11_Witness ==
    /\ Did("repay_credit", "Ok")
    /\ credit_lines[last.campaign_id].credit_used > 0
    /\ last.amount > credit_lines[last.campaign_id].credit_used
    /\ label.total_repaid = credit_lines[last.campaign_id].credit_used

\* C12: settle_with_dao(amount) fails with InvalidAmount when amount = 0 and
\* with the insufficient-funds error when amount exceeds the label treasury
\* balance; on success it moves exactly amount from the label treasury to the
\* DAO treasury and leaves every credit line and the label's counters
\* unchanged.
C12_SettleEffect ==
    [][last'.op = "settle_with_dao" =>
          /\ last'.amount = 0 => last'.err = "InvalidAmount"
          /\ last'.amount > token_amount["label_treasury"]
                 => last'.err = "InsufficientLabelFunds"
          /\ last'.err = "Ok" =>
                 /\ token_amount' = [token_amount EXCEPT
                        !["label_treasury"] = @ - last'.amount,
                        !["dao_treasury"] = @ + last'.amount]
                 /\ UNCHANGED <<label, proposals, credit_lines>>]_vars

----------------------------------------------------------------------------
(* The presale program *)

\* price_per_token_usdc arguments tried, zero included.
Prices == 0..MaxPrice

\* total_supply arguments tried: no cap, and every cap up to MaxSupply.
Supplies == {None} \cup (1..MaxSupply)

\* usdc_amount and amount arguments tried: every u64.
PresaleAmounts == 0..U64_MAX

\* The one campaign identifier in use, besides LongCampaignId.
PresaleCampaignId == "c1"

checked_mul(a, b) == IF a * b > U64_MAX THEN None ELSE a * b

checked_div(a, b) == IF b = 0 THEN None ELSE a \div b

\* token::mint_to: the error of minting amount on a mint of the given supply.
token_mint_to_err(supply, amount) ==
    IF supply + amount > U64_MAX THEN "TokenOverflow" ELSE "Ok"

----------------------------------------------------------------------------
(* initialize_campaign *)

initialize_campaign_err(authority, campaign_id, price_per_token_usdc, total_supply) ==
    \* InitializeCampaign: #[account(init, ...)] campaign
    IF campaign_id = PresaleCampaignId /\ campaign.initialized
    THEN "AccountAlreadyInUse"
    ELSE IF ~(IdLen(campaign_id) <= MAX_ID_LEN) THEN "CampaignIdTooLong"
    ELSE IF ~(price_per_token_usdc > 0) THEN "InvalidPrice"
    ELSE "Ok"

initialize_campaign(authority, campaign_id, price_per_token_usdc, total_supply) ==
    LET err == initialize_campaign_err(authority, campaign_id,
                                       price_per_token_usdc, total_supply)
    IN  /\ last' = Result("initialize_campaign", err, authority, campaign_id,
                          price_per_token_usdc)
        /\ IF err = "Ok"
           THEN /\ campaign' =
                      [initialized |-> TRUE, authority |-> authority,
                       price_per_token_usdc |-> price_per_token_usdc,
                       total_supply |-> total_supply, tokens_sold |-> 0,
                       usdc_raised |-> 0, is_active |-> TRUE]
                /\ UNCHANGED <<presale_usdc, campaign_tokens, mint_supply>>
           ELSE UNCHANGED presale_ledger

----------------------------------------------------------------------------
(* buy_presale *)

\* usdc_amount.checked_div(campaign.price_per_token_usdc)
tokens_to_mint(usdc_amount) == checked_div(usdc_amount, campaign.price_per_token_usdc)

\* tokens_to_mint.checked_mul(campaign.price_per_token_usdc)
actual_usdc_amount(usdc_amount) ==
    checked_mul(tokens_to_mint(usdc_amount), campaign.price_per_token_usdc)

\* Variant: the whole usdc_amount is transferred.
usdc_transferred_in_full(usdc_amount) == usdc_amount

\* token::transfer(transfer_ctx, actual_usdc_amount)
usdc_transferred(usdc_amount) == actual_usdc_amount(usdc_amount)

\* Variant: < in place of <=.
within_supply_strict(new_total, total_supply) == new_total < total_supply

\* require!(new_total <= total_supply, SupplyExceeded)
within_supply(new_total, total_supply) == new_total <= total_supply

\* Variant: the is_active check is missing.
buy_presale_check_no_active(usdc_amount) ==
    IF ~(usdc_amount > 0) THEN "InvalidAmount"
    ELSE IF tokens_to_mint(usdc_amount) = None THEN "MathOverflow"
    ELSE IF ~(tokens_to_mint(usdc_amount) > 0) THEN "InvalidAmount"
    ELSE IF campaign.total_supply /= None
            /\ checked_add(campaign.tokens_sold, tokens_to_mint(usdc_amount)) = None
         THEN "MathOverflow"
    ELSE IF campaign.total_supply /= None
            /\ ~within_supply(campaign.tokens_sold + tokens_to_mint(usdc_amount),
                              campaign.total_supply)
         THEN "SupplyExceeded"
    ELSE IF actual_usdc_amount(usdc_amount) = None THEN "MathOverflow"
    ELSE IF checked_sub(usdc_amount, actual_usdc_amount(usdc_amount)) = None
         THEN "MathOverflow"
    ELSE "Ok"

\* The handler's checks before the transfer, in the order of the code.
buy_presale_check(usdc_amount) ==
    IF ~campaign.is_active THEN "CampaignInactive"
    ELSE IF ~(usdc_amount > 0) THEN "InvalidAmount"
    ELSE IF tokens_to_mint(usdc_amount) = None THEN "MathOverflow"
    ELSE IF ~(tokens_to_mint(usdc_amount) > 0) THEN "InvalidAmount"
    ELSE IF campaign.total_supply /= None
            /\ checked_add(campaign.tokens_sold, tokens_to_mint(usdc_amount)) = None
         THEN "MathOverflow"
    ELSE IF campaign.total_supply /= None
            /\ ~within_supply(campaign.tokens_sold + tokens_to_mint(usdc_amount),
                              campaign.total_supply)
         THEN "SupplyExceeded"
    ELSE IF actual_usdc_amount(usdc_amount) = None THEN "MathOverflow"
    ELSE IF checked_sub(usdc_amount, actual_usdc_amount(usdc_amount)) = None
         THEN "MathOverflow"
    ELSE "Ok"

buy_presale_err(buyer, usdc_amount) ==
    \* BuyPresale: campaign must exist
    IF ~campaign.initialized THEN "AccountNotInitialized"
    ELSE IF buy_presale_check(usdc_amount) /= "Ok"
         THEN buy_presale_check(usdc_amount)
    ELSE IF token_transfer_err(presale_usdc, buyer, "campaign_treasury",
                               usdc_transferred(usdc_amount)) /= "Ok"
         THEN token_transfer_err(presale_usdc, buyer, "campaign_treasury",
                                 usdc_transferred(usdc_amount))
    ELSE IF token_mint_to_err(mint_supply, tokens_to_mint(usdc_amount)) /= "Ok"
         THEN token_mint_to_err(mint_supply, tokens_to_mint(usdc_amount))
    ELSE IF checked_add(campaign.tokens_sold, tokens_to_mint(usdc_amount)) = None
         THEN "MathOverflow"
    ELSE IF checked_add(campaign.usdc_raised, actual_usdc_amount(usdc_amount)) = None
         THEN "MathOverflow"
    ELSE "Ok"

\* Variant: usdc_raised grows by usdc_amount.
buy_presale_raising_usdc_amount(buyer, usdc_amount) ==
    LET err == buy_presale_err(buyer, usdc_amount)
    IN  /\ last' = Result("buy_presale", err, buyer, PresaleCampaignId, usdc_amount)
        /\ IF err = "Ok"
           THEN /\ presale_usdc' =
                      token_transfer(presale_usdc, buyer, "campaign_treasury",
                                     usdc_transferred(usdc_amount))
                /\ campaign_tokens' = [campaign_tokens EXCEPT
                      ![buyer] = @ + tokens_to_mint(usdc_amount)]
                /\ mint_supply' = mint_supply + tokens_to_mint(usdc_amount)
                /\ campaign' = [campaign EXCEPT
                      !.tokens_sold = checked_add(@, tokens_to_mint(usdc_amount)),
                      !.usdc_raised = @ + usdc_amount]
           ELSE UNCHANGED presale_ledger

\* Variant: usdc_amount tokens are minted, whatever the price.
buy_presale_minting_usdc_amount(buyer, usdc_amount) ==
    LET err == buy_presale_err(buyer, usdc_amount)
    IN  /\ last' = Result("buy_presale", err, buyer, PresaleCampaignId, usdc_amount)
        /\ IF err = "Ok"
           THEN /\ presale_usdc' =
                      token_transfer(presale_usdc, buyer, "campaign_treasury",
                                     usdc_transferred(usdc_amount))
                /\ campaign_tokens' = [campaign_tokens EXCEPT
                      ![buyer] = @ + usdc_amount]
                /\ mint_supply' = mint_supply + usdc_amount
                /\ campaign' = [campaign EXCEPT
                      !.tokens_sold = checked_add(@, tokens_to_mint(usdc_amount)),
                      !.usdc_raised =
                          checked_add(@, actual_usdc_amount(usdc_amount))]
           ELSE UNCHANGED presale_ledger

buy_presale(buyer, usdc_amount) ==
    LET err == buy_presale_err(buyer, usdc_amount)
    IN  /\ last' = Result("buy_presale", err, buyer, PresaleCampaignId, usdc_amount)
        /\ IF err = "Ok"
           THEN /\ presale_usdc' =
                      token_transfer(presale_usdc, buyer, "campaign_treasury",
                                     usdc_transferred(usdc_amount))
                /\ campaign_tokens' = [campaign_tokens EXCEPT
                      ![buyer] = @ + tokens_to_mint(usdc_amount)]
                /\ mint_supply' = mint_supply + tokens_to_mint(usdc_amount)
                /\ campaign' = [campaign EXCEPT
                      !.tokens_sold = checked_add(@, tokens_to_mint(usdc_amount)),
                      !.usdc_raised =
                          checked_add(@, actual_usdc_amount(usdc_amount))]
           ELSE UNCHANGED presale_ledger

----------------------------------------------------------------------------
(* withdraw_funds *)

\* Variant: has_one = authority is missing.
withdraw_funds_err_no_has_one(authority, amount) ==
    IF ~campaign.initialized THEN "AccountNotInitialized"
    ELSE IF ~(amount > 0) THEN "InvalidAmount"
    ELSE IF ~(amount <= presale_usdc["campaign_treasury"]) THEN "InsufficientFunds"
    ELSE token_transfer_err(presale_usdc, "campaign_treasury", authority, amount)

\* Variant: a closed campaign refuses withdrawals.
withdraw_funds_err_active_only(authority, amount) ==
    IF ~campaign.initialized THEN "AccountNotInitialized"
    ELSE IF campaign.authority /= authority THEN "ConstraintHasOne"
    ELSE IF ~campaign.is_active THEN "CampaignInactive"
    ELSE IF ~(amount > 0) THEN "InvalidAmount"
    ELSE IF ~(amount <= presale_usdc["campaign_treasury"]) THEN "InsufficientFunds"
    ELSE token_transfer_err(presale_usdc, "campaign_treasury", authority, amount)

withdraw_funds_err(authority, amount) ==
    \* WithdrawFunds: campaign must exist, has_one = authority
    IF ~campaign.initialized THEN "AccountNotInitialized"
    ELSE IF campaign.authority /= authority THEN "ConstraintHasOne"
    ELSE IF ~(amount > 0) THEN "InvalidAmount"
    ELSE IF ~(amount <= presale_usdc["campaign_treasury"]) THEN "InsufficientFunds"
    ELSE token_transfer_err(presale_usdc, "campaign_treasury", authority, amount)

withdraw_funds(authority, amount) ==
    LET err == withdraw_funds_err(authority, amount)
    IN  /\ last' = Result("withdraw_funds", err, authority, PresaleCampaignId, amount)
        /\ IF err = "Ok"
           THEN /\ presale_usdc' =
                      token_transfer(presale_usdc, "campaign_treasury", authority, amount)
                /\ UNCHANGED <<campaign, campaign_tokens, mint_supply>>
           ELSE UNCHANGED presale_ledger

----------------------------------------------------------------------------
(* close_campaign *)

\* Variant: has_one = authority is missing.
close_campaign_err_no_has_one(authority) ==
    IF ~campaign.initialized THEN "AccountNotInitialized"
    ELSE "Ok"

close_campaign_err(authority) ==
    \* CloseCampaign: campaign must exist, has_one = authority
    IF ~campaign.initialized THEN "AccountNotInitialized"
    ELSE IF campaign.authority /= authority THEN "ConstraintHasOne"
    ELSE "Ok"

close_campaign(authority) ==
    LET err == close_campaign_err(authority)
    IN  /\ last' = Result("close_campaign", err, authority, PresaleCampaignId, 0)
        /\ IF err = "Ok"
           THEN /\ campaign' = [campaign EXCEPT !.is_active = FALSE]
                /\ UNCHANGED <<presale_usdc, campaign_tokens, mint_supply>>
           ELSE UNCHANGED presale_ledger

----------------------------------------------------------------------------
(* The presale program: any wallet submits any instruction with any input *)

\* The label accounts as the label program's Init leaves them.
LabelGenesis ==
    /\ label = [is_active |-> TRUE, total_deployed |-> 0, total_repaid |-> 0,
                committed_amount |-> 0]
    /\ token_amount = [a \in TokenAccounts |->
                          IF a = "label_treasury" THEN InitialFunding ELSE 0]
    /\ proposals = [c \in CampaignIds \cup {LongCampaignId} |-> NoProposal]
    /\ credit_lines = [c \in CampaignIds \cup {LongCampaignId} |-> NoCreditLine]

InitPresale ==
    /\ PresaleGenesis
    /\ LabelGenesis
    /\ DaoGenesis
    /\ last = Result("init", "Ok", "none", "none", 0)

InitializeCampaign ==
    \E authority \in {"owner"}, campaign_id \in {PresaleCampaignId, LongCampaignId},
       price_per_token_usdc \in Prices, total_supply \in Supplies :
        /\ initialize_campaign(authority, campaign_id, price_per_token_usdc,
                               total_supply)
        /\ UNCHANGED <<ledger, dao_ledger>>

BuyPresale ==
    \E buyer \in Wallets, usdc_amount \in PresaleAmounts :
        /\ buy_presale(buyer, usdc_amount)
        /\ UNCHANGED <<ledger, dao_ledger>>

WithdrawFunds ==
    \E authority \in Wallets, amount \in PresaleAmounts :
        /\ withdraw_funds(authority, amount)
        /\ UNCHANGED <<ledger, dao_ledger>>

CloseCampaign ==
    \E authority \in Wallets :
        /\ close_campaign(authority)
        /\ UNCHANGED <<ledger, dao_ledger>>

NextPresale ==
    \/ InitializeCampaign
    \/ BuyPresale
    \/ WithdrawFunds
    \/ CloseCampaign

SpecPresale == InitPresale /\ [][NextPresale]_vars

----------------------------------------------------------------------------
(* Properties of the presale campaign *)

\* The step is the presale instruction op on an existing campaign.
PresaleStep(op) == last'.op = op /\ campaign.initialized

\* floor(usdc_amount / price) in the state before the step.
Units(usdc_amount) == usdc_amount \div campaign.price_per_token_usdc

\* The campaign exists and has a supply cap.
Capped == campaign.initialized /\ campaign.total_supply /= None

\* The campaign exists and close_campaign has succeeded on it.
Closed == campaign.initialized /\ ~campaign.is_active

\* C13: every successful buy_presale(usdc_amount) on a campaign of price p
\* debits the buyer and credits the campaign treasury by exactly
\* floor(usdc_amount / p) * p, mints the buyer floor(usdc_amount / p) tokens,
\* and raises tokens_sold by that count and usdc_raised by that cost; the
\* surplus is not debited.
C13_BuyExactCost ==
    [][(PresaleStep("buy_presale") /\ last'.err = "Ok") =>
          LET units == Units(last'.amount)
              cost == units * campaign.price_per_token_usdc
          IN  /\ presale_usdc' = [presale_usdc EXCEPT
                     ![last'.signer] = @ - cost,
                     !["campaign_treasury"] = @ + cost]
              /\ campaign_tokens' = [campaign_tokens EXCEPT
                     ![last'.signer] = @ + units]
              /\ mint_supply' = mint_supply + units
              /\ campaign'.tokens_sold = campaign.tokens_sold + units
              /\ campaign'.usdc_raised = campaign.usdc_raised + cost]_vars

\* A buy whose usdc_amount is not a multiple of the price succeeded and the
\* treasury received less than usdc_amount.
C13_Witness ==
    /\ Did("buy_presale", "Ok")
    /\ last.amount % campaign.price_per_token_usdc /= 0
    /\ campaign_tokens[last.signer] > 0
    /\ presale_usdc["campaign_treasury"] < last.amount

\* The step is a buy on an active capped campaign that passes the amount
\* checks and whose buyer holds the exact cost.
PayableBuyOnCapped ==
    /\ PresaleStep("buy_presale")
    /\ Capped
    /\ campaign.is_active
    /\ Units(last'.amount) > 0
    /\ presale_usdc[last'.signer] >=
           Units(last'.amount) * campaign.price_per_token_usdc

\* C14 as claimed: on a capped campaign tokens_sold <= cap in every reachable
\* state; a buy that would bring tokens_sold exactly to cap succeeds and one
\* that would exceed it fails with SupplyExceeded.
C14_CapBoundary ==
    /\ [](Capped => campaign.tokens_sold <= campaign.total_supply)
    /\ [][PayableBuyOnCapped =>
            LET new_total == campaign.tokens_sold + Units(last'.amount)
            IN  /\ new_total = campaign.total_supply => last'.err = "Ok"
                /\ new_total > campaign.total_supply
                       => last'.err = "SupplyExceeded"]_vars

\* C14 amended: on a capped campaign tokens_sold <= cap in every reachable
\* state; a buy that would exceed the cap fails and changes nothing, with
\* SupplyExceeded, or with MathOverflow when tokens_sold + units overflows;
\* a buy the buyer can pay for that brings tokens_sold to at most cap is not
\* refused for the cap, and succeeds unless usdc_raised would overflow.
C14_CapHolds ==
    /\ [](Capped => campaign.tokens_sold <= campaign.total_supply)
    /\ [][PayableBuyOnCapped =>
            LET units == Units(last'.amount)
                new_total == campaign.tokens_sold + units
                cost == units * campaign.price_per_token_usdc
            IN  /\ new_total > campaign.total_supply =>
                       /\ last'.err = IF new_total > U64_MAX THEN "MathOverflow"
                                      ELSE "SupplyExceeded"
                       /\ UNCHANGED presale_ledger
                /\ new_total <= campaign.total_supply =>
                       last'.err = IF campaign.usdc_raised + cost > U64_MAX
                                   THEN "MathOverflow" ELSE "Ok"]_vars

\* A buy has brought tokens_sold exactly to the cap.
C14_Witness ==
    /\ Did("buy_presale", "Ok")
    /\ Capped
    /\ campaign.tokens_sold = campaign.total_supply

\* C15: in every reachable state of a campaign,
\* usdc_raised = tokens_sold * price_per_token_usdc.
C15_RaisedIsSoldTimesPrice ==
    campaign.usdc_raised = campaign.tokens_sold * campaign.price_per_token_usdc

\* Tokens were sold with a surplus offered, part of the proceeds withdrawn
\* and the campaign closed.
C15_Witness ==
    /\ Closed
    /\ campaign.tokens_sold > 0
    /\ campaign.price_per_token_usdc > 1
    /\ presale_usdc["campaign_treasury"] < campaign.usdc_raised

\* The error the handler's checks give a buy, as the claim lists them.
ClaimedBuyError(usdc_amount, err) ==
    IF ~campaign.is_active THEN "CampaignInactive"
    ELSE IF usdc_amount = 0 \/ Units(usdc_amount) = 0 THEN "InvalidAmount"
    ELSE IF campaign.total_supply /= None
            /\ campaign.tokens_sold + Units(usdc_amount) > campaign.total_supply
         THEN "SupplyExceeded"
    ELSE err

\* C16 as claimed: buy_presale fails with the inactive error if the campaign
\* is closed, with InvalidAmount if usdc_amount = 0 or
\* floor(usdc_amount / price) = 0, and with SupplyExceeded if a cap is set
\* and tokens_sold + units > cap; every failing buy leaves tokens_sold,
\* usdc_raised, the balances and the minted supply unchanged.
C16_BuyErrors ==
    [][PresaleStep("buy_presale") =>
          /\ last'.err = ClaimedBuyError(last'.amount, last'.err)
          /\ last'.err /= "Ok" => UNCHANGED presale_ledger]_vars

\* C16 amended: as claimed, except that a buy with a cap set and
\* tokens_sold + units > cap fails with MathOverflow instead of
\* SupplyExceeded when tokens_sold + units overflows.
C16_BuyErrorsChecked ==
    [][PresaleStep("buy_presale") =>
          /\ last'.err =
                 IF ClaimedBuyError(last'.amount, last'.err) = "SupplyExceeded"
                    /\ campaign.tokens_sold + Units(last'.amount) > U64_MAX
                 THEN "MathOverflow"
                 ELSE ClaimedBuyError(last'.amount, last'.err)
          /\ last'.err /= "Ok" => UNCHANGED presale_ledger]_vars

\* A buy the buyer could pay for was refused for the cap.
C16_Witness ==
    /\ Did("buy_presale", "SupplyExceeded")
    /\ campaign.is_active
    /\ campaign.tokens_sold > 0
    /\ presale_usdc[last.signer] >= last.amount

\* C17 as claimed: once close_campaign has succeeded on a campaign, no later
\* buy_presale and no later withdraw_funds on it succeeds.
C17_ClosedStopsBuyAndWithdraw ==
    [][(Closed /\ last'.op \in {"buy_presale", "withdraw_funds"})
          => last'.err /= "Ok"]_vars

\* C17 amended: once close_campaign has succeeded on a campaign, the
\* campaign stays closed and every later buy_presale fails with the inactive
\* error and changes nothing; withdraw_funds is not affected: the authority
\* still withdraws any positive amount up to the treasury balance.
C17_ClosedStopsBuys ==
    [][Closed =>
          /\ ~campaign'.is_active
          /\ last'.op = "buy_presale" =>
                 (last'.err = "CampaignInactive" /\ UNCHANGED presale_ledger)
          /\ (/\ last'.op = "withdraw_funds"
              /\ last'.signer = campaign.authority
              /\ last'.amount > 0
              /\ last'.amount <= presale_usdc["campaign_treasury"])
                 => last'.err = "Ok"]_vars

\* The authority withdrew proceeds from a closed campaign.
C17_Witness ==
    /\ Did("withdraw_funds", "Ok")
    /\ Closed
    /\ last.amount > 0
    /\ presale_usdc[campaign.authority] >= last.amount

\* C18: withdraw_funds fails when the caller is not the campaign's
\* authority, and fails with InsufficientFunds when amount exceeds the
\* treasury balance; on success it moves exactly amount from the campaign
\* treasury to the authority's account and leaves tokens_sold, usdc_raised,
\* is_active and the minted supply unchanged.
C18_WithdrawEffect ==
    [][PresaleStep("withdraw_funds") =>
          /\ last'.signer /= campaign.authority =>
                 (last'.err /= "Ok" /\ UNCHANGED presale_ledger)
          /\ (/\ last'.signer = campaign.authority
              /\ last'.amount > presale_usdc["campaign_treasury"]) =>
                 (last'.err = "InsufficientFunds" /\ UNCHANGED presale_ledger)
          /\ last'.err = "Ok" =>
                 /\ presale_usdc' = [presale_usdc EXCEPT
                        !["campaign_treasury"] = @ - last'.amount,
                        ![campaign.authority] = @ + last'.amount]
                 /\ UNCHANGED <<campaign, campaign_tokens, mint_supply>>]_vars

\* A buyer's attempt to withdraw the proceeds was refused.
C18_Witness ==
    /\ Did("withdraw_funds", "ConstraintHasOne")
    /\ last.amount > 0
    /\ last.amount <= presale_usdc["campaign_treasury"]
    /\ campaign_tokens[last.signer] > 0

\* C19: close_campaign fails and changes nothing when the caller is not the
\* campaign's authority; called by the authority it sets is_active = false;
\* and no instruction sets a campaign's is_active back to true.
C19_CloseIrreversible ==
    [][/\ PresaleStep("close_campaign") =>
              IF last'.signer = campaign.authority
              THEN last'.err = "Ok" /\ ~campaign'.is_active
              ELSE last'.err /= "Ok" /\ UNCHANGED presale_ledger
       /\ Closed => ~campaign'.is_active]_vars

\* A buyer's attempt to close an open campaign was refused.
C19_Witness ==
    /\ Did("close_campaign", "ConstraintHasOne")
    /\ campaign.is_active
    /\ campaign_tokens[last.signer] > 0

----------------------------------------------------------------------------
(* The DAO program *)

\* require!(metadao_fee_bps <= 1000, ...)
MAX_FEE_BPS == 1000

\* require!(curator_share_bps <= 10000, ...) and repayment_target_bps
MAX_BPS == 10000

FeeBps == {MAX_FEE_BPS, MAX_FEE_BPS + 1}
ShareBps == {MAX_BPS, MAX_BPS + 1}

\* funding_amount and amount arguments tried.
DaoAmounts == 0..DaoFunding

\* label_token_supply arguments tried: zero, supplies whose shares are exact
\* and rounded down, and the largest u64.
TokenSupplies == {0, 10, 15, TOKEN_U64_MAX}

\* Accounts passed as metadao_treasury to pay_protocol_fee, which constrains
\* neither its address nor its owner: the MetaDAO treasury and, as an account
\* other than it, the funding wallet's.
FeeDestinations == {"metadao_treasury", "funder"}

\* Variant: the multiplication is not checked for overflow.
token_share_unchecked(label_token_supply, percent) ==
    (label_token_supply * percent) \div 100

\* label_token_supply.checked_mul(percent)?.checked_div(100)?
token_share(label_token_supply, percent) ==
    IF label_token_supply * percent > TOKEN_U64_MAX THEN None
    ELSE (label_token_supply * percent) \div 100

----------------------------------------------------------------------------
(* initialize_dao *)

initialize_dao_err(authority, metadao_fee_bps) ==
    \* InitializeDAO: #[account(init, seeds = [b"dao"], ...)] dao
    IF dao.initialized THEN "AccountAlreadyInUse"
    ELSE IF ~(metadao_fee_bps <= MAX_FEE_BPS) THEN "FeeTooHigh"
    ELSE "Ok"

initialize_dao(authority, metadao_fee_bps) ==
    LET err == initialize_dao_err(authority, metadao_fee_bps)
    IN  /\ last' = Result("initialize_dao", err, authority, "none", 0)
        /\ IF err = "Ok"
           THEN /\ dao' = [initialized |-> TRUE, authority |-> authority,
                           metadao_fee_bps |-> metadao_fee_bps,
                           total_labels_funded |-> 0,
                           total_deployed_capital |-> 0,
                           total_repayments |-> 0]
                /\ UNCHANGED <<dao_proposals, labels, dao_usdc, label_mints>>
           ELSE UNCHANGED dao_ledger

----------------------------------------------------------------------------
(* Funding of the DAO treasury: no instruction of the program pays into    *)
(* the treasury that initialize_dao creates empty; its USDC arrives by a   *)
(* token transfer from a holder.                                           *)

fund_treasury_err(amount) ==
    IF ~dao.initialized THEN "AccountNotInitialized"
    ELSE token_transfer_err(dao_usdc, "funder", "dao_treasury", amount)

fund_treasury(amount) ==
    LET err == fund_treasury_err(amount)
    IN  /\ last' = Result("fund_treasury", err, "funder", "none", amount)
        /\ IF err = "Ok"
           THEN /\ dao_usdc' = token_transfer(dao_usdc, "funder", "dao_treasury", amount)
                /\ UNCHANGED <<dao, dao_proposals, labels, label_mints>>
           ELSE UNCHANGED dao_ledger

----------------------------------------------------------------------------
(* propose_label *)

propose_label_err(proposer, label_name, funding_amount, curator_share_bps, repayment_target_bps) ==
    \* ProposeLabel: dao must exist; #[account(init, ...)] proposal
    IF ~dao.initialized THEN "AccountNotInitialized"
    ELSE IF dao_proposals[label_name].initialized THEN "AccountAlreadyInUse"
    ELSE IF ~(NameLen(label_name) <= MAX_NAME_LEN) THEN "NameTooLong"
    ELSE IF ~(funding_amount > 0) THEN "InvalidAmount"
    ELSE IF ~(curator_share_bps <= MAX_BPS) THEN "InvalidShare"
    ELSE IF ~(repayment_target_bps <= MAX_BPS) THEN "InvalidTarget"
    ELSE IF ~(dao_usdc["dao_treasury"] >= funding_amount)
         THEN "InsufficientTreasuryFunds"
    ELSE "Ok"

propose_label(proposer, label_name, funding_amount, curator_share_bps, repayment_target_bps) ==
    LET err == propose_label_err(proposer, label_name, funding_amount,
                                 curator_share_bps, repayment_target_bps)
    IN  /\ last' = Result("propose_label", err, proposer, label_name, funding_amount)
        /\ IF err = "Ok"
           THEN /\ dao_proposals' = [dao_proposals EXCEPT ![label_name] =
                      [initialized |-> TRUE, proposer |-> proposer,
                       funding_amount |-> funding_amount,
                       curator_share_bps |-> curator_share_bps,
                       status |-> "Pending", label |-> FALSE]]
                /\ UNCHANGED <<dao, labels, dao_usdc, label_mints>>
           ELSE UNCHANGED dao_ledger

----------------------------------------------------------------------------
(* execute_label_funding *)

\* Variant: the label account is not an `init` account, so an existing
\* label does not stop the instruction.
execute_label_funding_err_no_init(payer, label_name, label_token_supply) ==
    LET proposal == dao_proposals[label_name]
    IN  IF ~dao.initialized THEN "AccountNotInitialized"
        ELSE IF ~proposal.initialized THEN "AccountNotInitialized"
        ELSE IF token_transfer_err(dao_usdc, "dao_treasury", TreasuryOf(label_name),
                                   proposal.funding_amount) /= "Ok"
             THEN token_transfer_err(dao_usdc, "dao_treasury", TreasuryOf(label_name),
                                     proposal.funding_amount)
        ELSE IF token_share(label_token_supply, 50) = None THEN "MathOverflow"
        ELSE IF token_share(label_token_supply, 10) = None THEN "MathOverflow"
        ELSE IF checked_add(dao.total_labels_funded, 1) = None THEN "MathOverflow"
        ELSE IF checked_add(dao.total_deployed_capital, proposal.funding_amount) = None
             THEN "MathOverflow"
        ELSE "Ok"

\* The handler reads no proposal.status and verifies no market outcome; the
\* label, its mint and its treasury are #[account(init)].
execute_label_funding_err(payer, label_name, label_token_supply) ==
    LET proposal == dao_proposals[label_name]
    IN  IF ~dao.initialized THEN "AccountNotInitialized"
        ELSE IF ~proposal.initialized THEN "AccountNotInitialized"
        ELSE IF labels[label_name].initialized THEN "AccountAlreadyInUse"
        ELSE IF token_transfer_err(dao_usdc, "dao_treasury", TreasuryOf(label_name),
                                   proposal.funding_amount) /= "Ok"
             THEN token_transfer_err(dao_usdc, "dao_treasury", TreasuryOf(label_name),
                                     proposal.funding_amount)
        ELSE IF token_share(label_token_supply, 50) = None THEN "MathOverflow"
        ELSE IF token_share(label_token_supply, 10) = None THEN "MathOverflow"
        ELSE IF checked_add(dao.total_labels_funded, 1) = None THEN "MathOverflow"
        ELSE IF checked_add(dao.total_deployed_capital, proposal.funding_amount) = None
             THEN "MathOverflow"
        ELSE "Ok"

\* Variant: the mint authority is left with the label after the minting.
execute_label_funding_effect_keeping_authority(label_name, label_token_supply, funding_moved) ==
    LET proposal == dao_proposals[label_name]
        curator_tokens == token_share(label_token_supply, 50)
        dao_tokens == token_share(label_token_supply, 10)
    IN  /\ labels' = [labels EXCEPT ![label_name] =
               [initialized |-> TRUE,
                initial_funding |-> proposal.funding_amount,
                curator_share_bps |-> proposal.curator_share_bps,
                total_deployed |-> 0, total_repaid |-> 0, is_active |-> TRUE]]
        /\ dao_usdc' =
               IF funding_moved
               THEN token_transfer(dao_usdc, "dao_treasury", TreasuryOf(label_name),
                                   proposal.funding_amount)
               ELSE dao_usdc
        /\ label_mints' = [label_mints EXCEPT ![label_name] =
               [initialized |-> TRUE, mint_authority |-> TRUE,
                supply |-> curator_tokens + dao_tokens,
                curator_tokens |-> curator_tokens, dao_tokens |-> dao_tokens]]
        /\ dao' = [dao EXCEPT
               !.total_labels_funded = checked_add(@, 1),
               !.total_deployed_capital =
                   checked_add(@, proposal.funding_amount)]
        /\ dao_proposals' = [dao_proposals EXCEPT
               ![label_name].status = "Executed",
               ![label_name].label = TRUE]

\* The accounts after every step of a successful execution.
execute_label_funding_effect(label_name, label_token_supply, funding_moved) ==
    LET proposal == dao_proposals[label_name]
        curator_tokens == token_share(label_token_supply, 50)
        dao_tokens == token_share(label_token_supply, 10)
    IN  /\ labels' = [labels EXCEPT ![label_name] =
               [initialized |-> TRUE,
                initial_funding |-> proposal.funding_amount,
                curator_share_bps |-> proposal.curator_share_bps,
                total_deployed |-> 0, total_repaid |-> 0, is_active |-> TRUE]]
        /\ dao_usdc' =
               IF funding_moved
               THEN token_transfer(dao_usdc, "dao_treasury", TreasuryOf(label_name),
                                   proposal.funding_amount)
               ELSE dao_usdc
        /\ label_mints' = [label_mints EXCEPT ![label_name] =
               [initialized |-> TRUE, mint_authority |-> FALSE,
                supply |-> curator_tokens + dao_tokens,
                curator_tokens |-> curator_tokens, dao_tokens |-> dao_tokens]]
        /\ dao' = [dao EXCEPT
               !.total_labels_funded = checked_add(@, 1),
               !.total_deployed_capital =
                   checked_add(@, proposal.funding_amount)]
        /\ dao_proposals' = [dao_proposals EXCEPT
               ![label_name].status = "Executed",
               ![label_name].label = TRUE]

\* Variant: the result of the transfer is dropped instead of propagated, so
\* a failed transfer moves nothing and the rest is done all the same.
execute_label_funding_ignoring_transfer_error(payer, label_name, label_token_supply) ==
    LET real == execute_label_funding_err(payer, label_name, label_token_supply)
        err == IF real = "TokenInsufficientFunds" THEN "Ok" ELSE real
    IN  /\ last' = Result("execute_label_funding", err, payer, label_name,
                          label_token_supply)
        /\ IF err = "Ok"
           THEN execute_label_funding_effect(label_name, label_token_supply,
                                             real = "Ok")
           ELSE UNCHANGED dao_ledger

execute_label_funding(payer, label_name, label_token_supply) ==
    LET err == execute_label_funding_err(payer, label_name, label_token_supply)
    IN  /\ last' = Result("execute_label_funding", err, payer, label_name,
                          label_token_supply)
        /\ IF err = "Ok"
           THEN execute_label_funding_effect(label_name, label_token_supply, TRUE)
           ELSE UNCHANGED dao_ledger

----------------------------------------------------------------------------
(* record_label_repayment *)

\* RecordRepayment has no signer: whoever submits the transaction.
record_label_repayment_err(label_name, amount) ==
    IF ~dao.initialized THEN "AccountNotInitialized"
    ELSE IF ~labels[label_name].initialized THEN "AccountNotInitialized"
    ELSE IF ~(amount > 0) THEN "InvalidAmount"
    ELSE IF ~labels[label_name].is_active THEN "LabelInactive"
    ELSE IF token_transfer_err(dao_usdc, TreasuryOf(label_name), "dao_treasury",
                               amount) /= "Ok"
         THEN token_transfer_err(dao_usdc, TreasuryOf(label_name), "dao_treasury",
                                 amount)
    ELSE IF checked_add(labels[label_name].total_repaid, amount) = None
         THEN "MathOverflow"
    ELSE IF checked_add(dao.total_repayments, amount) = None THEN "MathOverflow"
    ELSE "Ok"

\* Variant: the repayment is not added to the DAO's total_repayments.
record_label_repayment_no_dao_stats(label_name, amount) ==
    LET err == record_label_repayment_err(label_name, amount)
    IN  /\ last' = Result("record_label_repayment", err, "none", label_name, amount)
        /\ IF err = "Ok"
           THEN /\ dao_usdc' = token_transfer(dao_usdc, TreasuryOf(label_name),
                                              "dao_treasury", amount)
                /\ labels' = [labels EXCEPT
                      ![label_name].total_repaid = checked_add(@, amount)]
                /\ UNCHANGED <<dao, dao_proposals, label_mints>>
           ELSE UNCHANGED dao_ledger

record_label_repayment(label_name, amount) ==
    LET err == record_label_repayment_err(label_name, amount)
    IN  /\ last' = Result("record_label_repayment", err, "none", label_name, amount)
        /\ IF err = "Ok"
           THEN /\ dao_usdc' = token_transfer(dao_usdc, TreasuryOf(label_name),
                                              "dao_treasury", amount)
                /\ labels' = [labels EXCEPT
                      ![label_name].total_repaid = checked_add(@, amount)]
                /\ dao' = [dao EXCEPT !.total_repayments = checked_add(@, amount)]
                /\ UNCHANGED <<dao_proposals, label_mints>>
           ELSE UNCHANGED dao_ledger

----------------------------------------------------------------------------
(* pay_protocol_fee *)

\* PayProtocolFee has no signer and puts no constraint on metadao_treasury.
pay_protocol_fee_err(amount, metadao_treasury) ==
    IF ~dao.initialized THEN "AccountNotInitialized"
    ELSE IF ~(amount > 0) THEN "InvalidAmount"
    ELSE token_transfer_err(dao_usdc, "dao_treasury", metadao_treasury, amount)

pay_protocol_fee(amount, metadao_treasury) ==
    LET err == pay_protocol_fee_err(amount, metadao_treasury)
    IN  /\ last' = Result("pay_protocol_fee", err, "none", "none", amount)
        /\ IF err = "Ok"
           THEN /\ dao_usdc' = token_transfer(dao_usdc, "dao_treasury",
                                              metadao_treasury, amount)
                /\ UNCHANGED <<dao, dao_proposals, labels, label_mints>>
           ELSE UNCHANGED dao_ledger

----------------------------------------------------------------------------
(* The DAO program: anyone submits any instruction with any input *)

InitDao ==
    /\ DaoGenesis
    /\ LabelGenesis
    /\ PresaleGenesis
    /\ last = Result("init", "Ok", "none", "none", 0)

InitializeDAO ==
    \E authority \in {"dao_authority"}, metadao_fee_bps \in FeeBps :
        /\ initialize_dao(authority, metadao_fee_bps)
        /\ UNCHANGED <<ledger, presale_ledger>>

FundTreasury ==
    \E amount \in 1..DaoFunding :
        /\ fund_treasury(amount)
        /\ UNCHANGED <<ledger, presale_ledger>>

ProposeLabel ==
    \E proposer \in {"curator"}, label_name \in LabelNames \cup {LongLabelName},
       funding_amount \in DaoAmounts, curator_share_bps \in ShareBps,
       repayment_target_bps \in ShareBps :
        /\ propose_label(proposer, label_name, funding_amount,
                         curator_share_bps, repayment_target_bps)
        /\ UNCHANGED <<ledger, presale_ledger>>

ExecuteLabelFunding ==
    \E payer \in {"curator", "outsider"}, label_name \in LabelNames,
       label_token_supply \in TokenSupplies :
        /\ execute_label_funding(payer, label_name, label_token_supply)
        /\ UNCHANGED <<ledger, presale_ledger>>

RecordRepayment ==
    \E label_name \in LabelNames, amount \in DaoAmounts :
        /\ record_label_repayment(label_name, amount)
        /\ UNCHANGED <<ledger, presale_ledger>>

PayProtocolFee ==
    \E amount \in DaoAmounts, metadao_treasury \in FeeDestinations :
        /\ pay_protocol_fee(amount, metadao_treasury)
        /\ UNCHANGED <<ledger, presale_ledger>>

NextDao ==
    \/ InitializeDAO
    \/ FundTreasury
    \/ ProposeLabel
    \/ ExecuteLabelFunding
    \/ RecordRepayment
    \/ PayProtocolFee

SpecDao == InitDao /\ [][NextDao]_vars

----------------------------------------------------------------------------
(* Properties of the DAO *)

\* The step is the DAO instruction op on the proposal or label named n.
DaoStepOn(op, n) == last'.op = op /\ last'.campaign_id = n

\* C20: execute_label_funding is all-or-nothing: when it succeeds, exactly
\* proposal.funding_amount has moved from the DAO treasury to the new
\* label's treasury, dao.total_deployed_capital has grown by funding_amount,
\* the label exists (active, initial_funding = funding_amount) and the
\* proposal is Executed and references the label; when a step fails, as the
\* transfer does when the DAO treasury holds less than funding_amount, none
\* of these changes is visible and the proposal keeps its status.
C20_ExecuteAllOrNothing ==
    [][\A n \in LabelNames :
          DaoStepOn("execute_label_funding", n) =>
              LET funding_amount == dao_proposals[n].funding_amount
              IN  /\ (/\ dao_proposals[n].initialized
                      /\ dao_usdc["dao_treasury"] < funding_amount)
                         => last'.err /= "Ok"
                  /\ IF last'.err = "Ok"
                     THEN /\ dao_usdc' = [dao_usdc EXCEPT
                                 !["dao_treasury"] = @ - funding_amount,
                                 ![TreasuryOf(n)] = @ + funding_amount]
                          /\ dao'.total_deployed_capital =
                                 dao.total_deployed_capital + funding_amount
                          /\ ~labels[n].initialized
                          /\ labels'[n].initialized
                          /\ labels'[n].is_active
                          /\ labels'[n].initial_funding = funding_amount
                          /\ dao_proposals'[n].status = "Executed"
                          /\ dao_proposals'[n].label
                     ELSE UNCHANGED dao_ledger]_vars

\* An execution failed in the transfer, the DAO treasury holding less than
\* the proposal's funding_amount, and left the proposal pending and no label.
C20_Witness ==
    /\ Did("execute_label_funding", "TokenInsufficientFunds")
    /\ dao_proposals[last.campaign_id].status = "Pending"
    /\ dao_usdc["dao_treasury"] < dao_proposals[last.campaign_id].funding_amount
    /\ ~labels[last.campaign_id].initialized

----------------------------------------------------------------------------
(* Properties of proposal execution *)

\* C21: execution is guarded by proposal status: an execute_artist_funding
\* (and, at the DAO, an execute_label_funding) on a proposal that is not in
\* the pre-execution status Pending fails with the state error
\* ProposalNotPending and changes no state.
C21_ExecuteGuardedByStatus ==
    [][\A c \in CampaignIds :
          (/\ StepOn("execute_artist_funding", c)
           /\ proposals[c].initialized
           /\ proposals[c].status /= "Pending") =>
              (last'.err = "ProposalNotPending" /\ UNCHANGED ledger)]_vars

\* The status changes the spec allows a proposal, in the names of the DAO's
\* ProposalStatus (Passed for Approved, Failed for Rejected), and the
\* creation of the proposal as Pending.
AllowedStatusChanges ==
    {<<"None", "Pending">>, <<"Pending", "Passed">>, <<"Pending", "Failed">>,
     <<"Passed", "Executed">>}

\* C22: a proposal's status moves only along Pending->Approved,
\* Pending->Rejected and Approved->Executed: no proposal reaches Executed
\* without having been Approved, and a Rejected, Executed or Cancelled
\* proposal never changes status again.
C22_StatusTransitions ==
    [][\A n \in LabelNames :
          dao_proposals'[n].status /= dao_proposals[n].status =>
              <<dao_proposals[n].status, dao_proposals'[n].status>>
                  \in AllowedStatusChanges]_vars

\* A step that executes the proposal of campaign c (label n) successfully.
ExecutedArtistFunding(c) ==
    StepOn("execute_artist_funding", c) /\ last'.err = "Ok"

ExecutedLabelFunding(n) ==
    DaoStepOn("execute_label_funding", n) /\ last'.err = "Ok"

\* The forward reference of a proposal is set only once its child exists.
ForwardReferencesUnsetBeforeExecution ==
    /\ \A c \in CampaignIds :
          ~credit_lines[c].initialized => ~proposals[c].credit_line
    /\ \A n \in LabelNames :
          ~labels[n].initialized => ~dao_proposals[n].label

C24_ExecuteArtistFundingEffect ==
    [][/\ \A c \in CampaignIds :
             ExecutedArtistFunding(c) =>
                 /\ ~credit_lines[c].initialized
                 /\ credit_lines'[c] =
                        [initialized |-> TRUE, artist |-> proposals[c].artist,
                         credit_limit |-> proposals[c].requested_amount,
                         credit_used |-> 0, credit_repaid |-> 0,
                         is_active |-> TRUE]
                 /\ \A d \in CampaignIds \ {c} :
                        credit_lines'[d] = credit_lines[d]
                 /\ label'.total_deployed =
                        label.total_deployed + proposals[c].requested_amount
                 /\ label'.committed_amount =
                        label.committed_amount + proposals[c].requested_amount
       /\ \A c \in CampaignIds :
             credit_lines[c].initialized =>
                 credit_lines'[c].credit_limit = credit_lines[c].credit_limit]_vars

\* A credit line was just created beside an older one that has been drawn.
C24_Witness ==
    /\ last.op = "execute_artist_funding" /\ last.err = "Ok"
    /\ credit_lines[last.campaign_id].credit_limit > 0
    /\ credit_lines[last.campaign_id].credit_used = 0
    /\ \E c \in CampaignIds : credit_lines[c].credit_used > 0

\* C25: once execute_label_funding has succeeded for a label, the label
\* token's mint authority is removed, and in no later step does its supply
\* (or any holding minted from it) change or the authority come back.
C25_MintAuthorityRevoked ==
    [][\A n \in LabelNames :
          /\ ExecutedLabelFunding(n) =>
                 (label_mints'[n].initialized /\ ~label_mints'[n].mint_authority)
          /\ labels[n].initialized =>
                 /\ label_mints[n].initialized
                 /\ ~label_mints[n].mint_authority
                 /\ label_mints'[n] = label_mints[n]]_vars

\* A label whose tokens were minted has since recorded a repayment.
C25_Witness ==
    /\ last.op = "record_label_repayment" /\ last.err = "Ok"
    /\ labels[last.campaign_id].initialized
    /\ label_mints[last.campaign_id].supply > 0

\* An execution that passes account validation and whose funding the DAO
\* treasury holds: it reaches the computation of the token allocations.
ReachesTokenAllocation(n) ==
    /\ dao.initialized
    /\ dao_proposals[n].initialized
    /\ ~labels[n].initialized
    /\ dao_usdc["dao_treasury"] >= dao_proposals[n].funding_amount

\* C26: a successful execute_label_funding(label_token_supply) mints
\* floor(supply * 50 / 100) to the curator and floor(supply * 10 / 100) to
\* the DAO, never more than supply in total; when supply * 50 does not fit
\* the token width the execution fails, with MathOverflow once it reaches the
\* allocation, and no funds move, no label is created, nothing is minted.
C26_TokenAllocation ==
    [][\A n \in LabelNames :
          DaoStepOn("execute_label_funding", n) =>
              LET supply == last'.amount
              IN  /\ last'.err = "Ok" =>
                         /\ label_mints'[n].curator_tokens = (supply * 50) \div 100
                         /\ label_mints'[n].dao_tokens = (supply * 10) \div 100
                         /\ label_mints'[n].supply =
                                label_mints'[n].curator_tokens
                                    + label_mints'[n].dao_tokens
                         /\ label_mints'[n].supply <= supply
                  /\ supply * 50 > TOKEN_U64_MAX =>
                         /\ last'.err /= "Ok"
                         /\ ReachesTokenAllocation(n) => last'.err = "MathOverflow"
                         /\ UNCHANGED dao_ledger]_vars

\* An execution has just failed with MathOverflow beside a label whose
\* allocations were rounded down (supply 15: 7 and 1).
C26_Witness ==
    /\ last.op = "execute_label_funding" /\ last.err = "MathOverflow"
    /\ last.amount * 50 > TOKEN_U64_MAX
    /\ dao_usdc["dao_treasury"] > 0
    /\ \E n \in LabelNames :
          label_mints[n].curator_tokens = 7 /\ label_mints[n].dao_tokens = 1

\* A step that draws on the credit line of campaign c successfully.
DrewCredit(c) ==
    StepOn("draw_credit", c) /\ last'.err = "Ok"

\* C27: label.committed_amount increases only in a successful
\* execute_artist_funding (by requested_amount) and decreases only in a
\* successful draw_credit on a credit line such an execution created (by the
\* amount drawn); submit_artist_proposal, repay_credit and settle_with_dao
\* never change it, and it is never below 0.
C27_CommittedAmountChanges ==
    [][/\ \A c \in CampaignIds :
             ExecutedArtistFunding(c) =>
                 label'.committed_amount =
                     label.committed_amount + proposals[c].requested_amount
       /\ \A c \in CampaignIds :
             DrewCredit(c) =>
                 /\ credit_lines[c].initialized
                 /\ proposals[c].credit_line
                 /\ label'.committed_amount =
                        label.committed_amount - last'.amount
       /\ ~(\E c \in CampaignIds : ExecutedArtistFunding(c) \/ DrewCredit(c)) =>
             label'.committed_amount = label.committed_amount
       /\ label.committed_amount >= 0
       /\ label'.committed_amount >= 0]_vars

\* A draw has released part of what two executions committed.
C27_Witness ==
    /\ last.op = "draw_credit" /\ last.err = "Ok" /\ last.amount > 0
    /\ label.committed_amount > 0
    /\ \A c \in CampaignIds : credit_lines[c].initialized

\* C29: draw_credit and repay_credit succeed only when signed by the artist
\* recorded on the credit line; a call by any other identity fails and
\* changes no credit line, label counter or balance.
C29_OnlyTheLinesArtist ==
    [][\A c \in CampaignIds :
          (StepOn("draw_credit", c) \/ StepOn("repay_credit", c)) =>
              /\ last'.err = "Ok" =>
                     /\ credit_lines[c].initialized
                     /\ last'.signer = credit_lines[c].artist
              /\ last'.signer /= credit_lines[c].artist =>
                     /\ last'.err /= "Ok"
                     /\ UNCHANGED ledger]_vars

\* A wallet that is not the line's artist has just been refused a draw the
\* artist could have made.
C29_Witness ==
    /\ last.op = "draw_credit" /\ last.err = "ConstraintHasOne"
    /\ last.signer = "outsider" /\ last.amount > 0
    /\ credit_lines[last.campaign_id].is_active
    /\ last.amount <= credit_lines[last.campaign_id].credit_limit
                          - credit_lines[last.campaign_id].credit_used
    /\ last.amount <= token_amount["label_treasury"]

\* The errors of the require! checks on the arguments of a submission.
ValidationErrors ==
    {"NameTooLong", "IdTooLong", "InvalidAmount", "DescriptionTooLong",
     "InvalidShare", "InvalidTarget"}

\* submit_artist_proposal for a campaign that has no proposal yet: a zero
\* amount or an over-long string is a validation error, and with valid
\* arguments an inactive label is LabelInactive.
SubmitArtistProposalValidated ==
    \A artist \in Artists, campaign_id \in CampaignIds \cup {LongCampaignId},
       requested_amount \in Amounts, name_len \in NameLens,
       description_len \in DescriptionLens :
        LET err == submit_artist_proposal_err(artist, campaign_id, requested_amount,
                                              name_len, description_len)
            invalid == \/ requested_amount = 0
                       \/ name_len > MAX_NAME_LEN
                       \/ IdLen(campaign_id) > MAX_ID_LEN
                       \/ description_len > MAX_DESCRIPTION_LEN
        IN  ~proposals[campaign_id].initialized =>
                /\ invalid => err \in ValidationErrors
                /\ (~invalid /\ ~label.is_active) => err = "LabelInactive"

\* propose_label for a name that has no proposal yet, once the DAO exists: a
\* zero amount or an over-long name is a validation error.
ProposeLabelValidated ==
    \A label_name \in LabelNames \cup {LongLabelName},
       funding_amount \in DaoAmounts, curator_share_bps \in ShareBps,
       repayment_target_bps \in ShareBps :
        LET err == propose_label_err("curator", label_name, funding_amount,
                                     curator_share_bps, repayment_target_bps)
        IN  (/\ dao.initialized
             /\ ~dao_proposals[label_name].initialized
             /\ (funding_amount = 0 \/ NameLen(label_name) > MAX_NAME_LEN)) =>
                err \in ValidationErrors

----------------------------------------------------------------------------
(* Properties of the three ledgers together *)

\* The sum of the balances bal holds for the accounts in accounts.
RECURSIVE SumBalances(_, _)
SumBalances(bal, accounts) ==
    IF accounts = {} THEN 0
    ELSE LET a == CHOOSE x \in accounts : TRUE
         IN  bal[a] + SumBalances(bal, accounts \ {a})

\* All stable-value funds: the token accounts of the three programs.
TotalFunds ==
    SumBalances(token_amount, DOMAIN token_amount)
        + SumBalances(presale_usdc, DOMAIN presale_usdc)
        + SumBalances(dao_usdc, DOMAIN dao_usdc)

\* Between two states the balances before and after differ by nothing, or
\* by one account debited exactly what one other account is credited.
MovesFunds(before, after) ==
    \/ after = before
    \/ \E from, to \in DOMAIN before : \E amount \in 1..U64_MAX :
          /\ from /= to
          /\ before[from] >= amount
          /\ after = [before EXCEPT ![from] = @ - amount, ![to] = @ + amount]

----------------------------------------------------------------------------
(* Properties of the aggregate counters *)

RECURSIVE SumLimit(_)
SumLimit(cs) ==
    IF cs = {} THEN 0
    ELSE LET c == CHOOSE x \in cs : TRUE
         IN  credit_lines[c].credit_limit + SumLimit(cs \ {c})

RECURSIVE SumRepaid(_)
SumRepaid(cs) ==
    IF cs = {} THEN 0
    ELSE LET c == CHOOSE x \in cs : TRUE
         IN  credit_lines[c].credit_repaid + SumRepaid(cs \ {c})

RECURSIVE SumUndrawn(_)
SumUndrawn(cs) ==
    IF cs = {} THEN 0
    ELSE LET c == CHOOSE x \in cs : TRUE
         IN  (credit_lines[c].credit_limit - credit_lines[c].credit_used)
                 + SumUndrawn(cs \ {c})

\* C32: in every reachable state the label's aggregate counters equal the
\* sums over its credit lines: total_deployed the sum of credit_limit,
\* total_repaid the sum of credit_repaid, committed_amount the sum of
\* credit_limit - credit_used; so every line's available credit is within
\* committed_amount and the decrement in draw_credit cannot underflow.
C32_CountersAreSums ==
    /\ label.total_deployed = SumLimit(DOMAIN credit_lines)
    /\ label.total_repaid = SumRepaid(DOMAIN credit_lines)
    /\ label.committed_amount = SumUndrawn(DOMAIN credit_lines)
    /\ \A c \in DOMAIN credit_lines :
          credit_lines[c].credit_limit - credit_lines[c].credit_used
              <= label.committed_amount

\* Two credit lines, one drawn and partly repaid, the other with credit left.
C32_Witness ==
    /\ \E c \in CampaignIds :
          credit_lines[c].credit_used > 0 /\ credit_lines[c].credit_repaid > 0
    /\ \E c \in CampaignIds :
          /\ credit_lines[c].initialized
          /\ credit_lines[c].credit_used < credit_lines[c].credit_limit
    /\ label.total_repaid > 0
    /\ label.committed_amount > 0

\* The labels the DAO has created, and sums over them.
FundedLabels == {n \in LabelNames : labels[n].initialized}

RECURSIVE SumInitialFunding(_)
SumInitialFunding(ns) ==
    IF ns = {} THEN 0
    ELSE LET n == CHOOSE x \in ns : TRUE
         IN  labels[n].initial_funding + SumInitialFunding(ns \ {n})

RECURSIVE SumLabelRepaid(_)
SumLabelRepaid(ns) ==
    IF ns = {} THEN 0
    ELSE LET n == CHOOSE x \in ns : TRUE
         IN  labels[n].total_repaid + SumLabelRepaid(ns \ {n})

\* C33: in every reachable state of the DAO program total_labels_funded is
\* the number of labels created, which is the number of Executed proposals,
\* total_deployed_capital is the sum of their initial_funding and
\* total_repayments the sum of their total_repaid; none of the three
\* counters ever decreases.
C33_DaoCountersAreSums ==
    /\ [](/\ dao.total_labels_funded = Cardinality(FundedLabels)
          /\ FundedLabels =
                 {n \in LabelNames : dao_proposals[n].status = "Executed"}
          /\ dao.total_deployed_capital = SumInitialFunding(FundedLabels)
          /\ dao.total_repayments = SumLabelRepaid(FundedLabels))
    /\ [][/\ dao'.total_labels_funded >= dao.total_labels_funded
          /\ dao'.total_deployed_capital >= dao.total_deployed_capital
          /\ dao'.total_repayments >= dao.total_repayments]_vars

\* Two labels funded, one of which has repaid.
C33_Witness ==
    /\ dao.total_labels_funded = 2
    /\ dao.total_deployed_capital > 0
    /\ dao.total_repayments > 0
    /\ \E n \in LabelNames : labels[n].total_repaid = 0

----------------------------------------------------------------------------
(* Properties of checked arithmetic *)

\* Every counter of the three programs is within the unsigned range.
CountersInRange ==
    /\ {label.total_deployed, label.committed_amount, label.total_repaid}
           \subseteq 0..U64_MAX
    /\ \A c \in CampaignIds :
          {credit_lines[c].credit_used, credit_lines[c].credit_repaid}
              \subseteq 0..U64_MAX
    /\ {campaign.tokens_sold, campaign.usdc_raised} \subseteq 0..U64_MAX
    /\ {dao.total_labels_funded, dao.total_deployed_capital, dao.total_repayments}
           \subseteq 0..U64_MAX
    /\ \A n \in LabelNames : labels[n].total_repaid \in 0..U64_MAX

\* The step is a buy_presale that passes the handler's checks and the USDC
\* transfer, and so reaches the mint and the counter updates.
BuyReachesUpdate ==
    /\ PresaleStep("buy_presale")
    /\ buy_presale_check(last'.amount) = "Ok"
    /\ token_transfer_err(presale_usdc, last'.signer, "campaign_treasury",
                          usdc_transferred(last'.amount)) = "Ok"

TokensSoldWouldOverflow ==
    campaign.tokens_sold + Units(last'.amount) > U64_MAX

UsdcRaisedWouldOverflow ==
    campaign.usdc_raised + Units(last'.amount) * campaign.price_per_token_usdc
        > U64_MAX

\* The step is an execute_artist_funding of campaign c that reaches the
\* counter updates, one of which would overflow.
ExecuteWouldOverflow(c) ==
    /\ StepOn("execute_artist_funding", c)
    /\ proposals[c].initialized
    /\ ~credit_lines[c].initialized
    /\ proposals[c].status = "Pending"
    /\ \/ label.total_deployed + proposals[c].requested_amount > U64_MAX
       \/ label.committed_amount + proposals[c].requested_amount > U64_MAX

\* The step is a record_label_repayment of label n that passes its checks
\* and its transfer, and one of the counter updates would overflow.
RepaymentWouldOverflow(n) ==
    /\ DaoStepOn("record_label_repayment", n)
    /\ dao.initialized
    /\ labels[n].initialized
    /\ last'.amount > 0
    /\ labels[n].is_active
    /\ token_transfer_err(dao_usdc, TreasuryOf(n), "dao_treasury", last'.amount) = "Ok"
    /\ \/ labels[n].total_repaid + last'.amount > U64_MAX
       \/ dao.total_repayments + last'.amount > U64_MAX

\* The counter updates of the label and DAO programs that would overflow
\* fail with MathOverflow and change nothing; a failure by overflow changes
\* nothing in any program.
OverflowAborts ==
    /\ last'.err \in {"MathOverflow", "TokenOverflow"} =>
           UNCHANGED <<ledger, presale_ledger, dao_ledger>>
    /\ \A c \in CampaignIds :
          ExecuteWouldOverflow(c) => last'.err = "MathOverflow"
    /\ \A n \in LabelNames :
          RepaymentWouldOverflow(n) => last'.err = "MathOverflow"

----------------------------------------------------------------------------
(* Properties of settlements, fees and commitments *)

\* C35: settle_with_dao never succeeds with amount greater than the label
\* treasury balance less label.committed_amount, so a settlement cannot
\* remove funds committed to undrawn credit.
C35_SettleWithinAvailableFunds ==
    [][(last'.op = "settle_with_dao" /\ last'.err = "Ok") =>
           last'.amount <= token_amount["label_treasury"] - label.committed_amount]_vars

\* An upper bound of the protocol fees accrued so far: the sum over the
\* recorded repayments of floor(amount * metadao_fee_bps / 10000) is at most
\* the same share of their total.
AccruedFeeBound == (dao.total_repayments * dao.metadao_fee_bps) \div MAX_BPS

\* C36: pay_protocol_fee pays out only accumulated protocol fees, so no
\* payment moves more out of the DAO treasury than the fees accrued by the
\* successful record_label_repayment calls so far, and pay_protocol_fee
\* changes no DAO or label counter.
C36_FeePaidWithinAccrued ==
    [][(last'.op = "pay_protocol_fee" /\ last'.err = "Ok") =>
           /\ last'.amount <= AccruedFeeBound
           /\ UNCHANGED <<dao, labels>>]_vars

\* The label has credit lines and every one of them is inactive.
AllCreditLinesInactive ==
    /\ \E c \in CampaignIds : credit_lines[c].initialized
    /\ \A c \in CampaignIds : ~credit_lines[c].is_active

\* C37 as stated: commitments are released when credit lines close: in every
\* reachable state in which all credit lines of the label are inactive,
\* label.committed_amount is 0.
C37_ClosedLinesReleaseCommitment ==
    AllCreditLinesInactive => label.committed_amount = 0

\* C37: closing a credit line releases no commitment: in every reachable
\* state in which all credit lines of the label are inactive,
\* label.committed_amount is the sum of their undrawn credit
\* credit_limit - credit_used, and so is 0 exactly when every line was drawn
\* in full.
C37_ClosedLinesKeepUndrawnCommitted ==
    AllCreditLinesInactive =>
        /\ label.committed_amount = SumUndrawn(CampaignIds)
        /\ label.committed_amount = 0 <=>
               \A c \in CampaignIds :
                  credit_lines[c].credit_used = credit_lines[c].credit_limit

\* Every credit line is closed, one drawn in part and repaid, and its
\* undrawn credit is still committed.
C37_Witness ==
    /\ AllCreditLinesInactive
    /\ label.committed_amount > 0
    /\ \E c \in CampaignIds :
          /\ credit_lines[c].credit_used > 0
          /\ credit_lines[c].credit_used < credit_lines[c].credit_limit

----------------------------------------------------------------------------
(* Properties of a credit line's lifetime *)

\* C38: repay_credit by the line's artist with any amount > 0 on an active
\* credit line whose outstanding balance is 0 (a new line never drawn)
\* succeeds, transfers nothing, leaves credit_repaid and every counter
\* unchanged and sets is_active = false; an inactive line stays inactive and
\* its credit_used never changes, so the undrawn limit is never drawn.
C38_RepayOfNothingCloses ==
    [][\A c \in CampaignIds :
          /\ (/\ StepOn("repay_credit", c)
              /\ credit_lines[c].initialized
              /\ last'.signer = credit_lines[c].artist
              /\ last'.amount > 0
              /\ credit_lines[c].is_active
              /\ Outstanding(c) = 0) =>
                 /\ last'.err = "Ok"
                 /\ token_amount' = token_amount
                 /\ credit_lines' =
                        [credit_lines EXCEPT ![c].is_active = FALSE]
                 /\ label' = label
          /\ (credit_lines[c].initialized /\ ~credit_lines[c].is_active) =>
                 /\ ~credit_lines'[c].is_active
                 /\ credit_lines'[c].credit_used = credit_lines[c].credit_used
                 /\ ~DrewCredit(c)]_vars

\* A line that was never drawn has just been closed by a repayment, with
\* funds in the treasury that its limit would have allowed to draw.
C38_Witness ==
    /\ last.op = "repay_credit" /\ last.err = "Ok" /\ last.amount > 0
    /\ ~credit_lines[last.campaign_id].is_active
    /\ credit_lines[last.campaign_id].credit_used = 0
    /\ credit_lines[last.campaign_id].credit_limit > 0
    /\ token_amount["label_treasury"] >= credit_lines[last.campaign_id].credit_limit

\* C39: credit_used of a credit line never decreases and grows by exactly
\* what is drawn, so the amounts drawn over the line's lifetime sum to
\* credit_used, which never exceeds credit_limit; repay_credit leaves the
\* available credit credit_limit - credit_used unchanged.
C39_DrawnWithinLimitForLife ==
    /\ [](\A c \in CampaignIds :
             /\ credit_lines[c].credit_used >= 0
             /\ credit_lines[c].credit_used <= credit_lines[c].credit_limit)
    /\ [][\A c \in CampaignIds :
             /\ credit_lines'[c].credit_used >= credit_lines[c].credit_used
             /\ credit_lines'[c].credit_used - credit_lines[c].credit_used =
                    (IF DrewCredit(c) THEN last'.amount ELSE 0)
             /\ StepOn("repay_credit", c) =>
                    credit_lines'[c].credit_limit - credit_lines'[c].credit_used
                        = credit_lines[c].credit_limit - credit_lines[c].credit_used]_vars

\* A line drawn to its limit and repaid in part has just been refused a
\* further draw that the treasury could have paid.
C39_Witness ==
    /\ last.op = "draw_credit" /\ last.err = "InsufficientCredit"
    /\ credit_lines[last.campaign_id].is_active
    /\ credit_lines[last.campaign_id].credit_repaid > 0
    /\ credit_lines[last.campaign_id].credit_used
           = credit_lines[last.campaign_id].credit_limit
    /\ token_amount["label_treasury"] >= last.amount

----------------------------------------------------------------------------
(* Properties of the campaign token *)

\* The campaign tokens held by the wallets in ws.
RECURSIVE SumCampaignTokens(_)
SumCampaignTokens(ws) ==
    IF ws = {} THEN 0
    ELSE LET w == CHOOSE x \in ws : TRUE
         IN  campaign_tokens[w] + SumCampaignTokens(ws \ {w})

\* C40: in every reachable state of a campaign the campaign tokens minted,
\* the sum of all buyers' campaign-token balances, equal tokens_sold; tokens
\* are minted only by a successful buy_presale, never by
\* initialize_campaign, withdraw_funds or close_campaign.
C40_MintedIsSold ==
    /\ [](/\ SumCampaignTokens(Wallets) = campaign.tokens_sold
          /\ mint_supply = campaign.tokens_sold)
    /\ [][(campaign_tokens' /= campaign_tokens \/ mint_supply' /= mint_supply) =>
              /\ last'.op = "buy_presale" /\ last'.err = "Ok"
              /\ campaign_tokens' = [campaign_tokens EXCEPT
                     ![last'.signer] = @ + Units(last'.amount)]]_vars

\* A buyer holds campaign tokens bought at a price above 1, and proceeds
\* have since been withdrawn.
C40_Witness ==
    /\ last.op = "withdraw_funds" /\ last.err = "Ok" /\ last.amount > 0
    /\ campaign.price_per_token_usdc > 1
    /\ campaign.tokens_sold > 0
    /\ campaign_tokens["buyer1"] > 0

============================================================================
